---------------------------- MODULE Spec2Model ----------------------------
(***************************************************************************)
(* Exact floating-point summation with small and large superaccumulators   *)
(* (xsum.hpp).  The state is a pair of small accumulators and a pair of    *)
(* large accumulators, as the example driver and the MPI user operation    *)
(* use them, plus a record of the terms that went into each.               *)
(*                                                                         *)
(* 64-bit integers (xsum_int, xsum_uint, xsum_schunk, xsum_lchunk) are     *)
(* tuples of four 16-bit limbs, least significant first, and every         *)
(* operation on them wraps modulo 2^64 as the two's-complement machine     *)
(* arithmetic of the source does.                                          *)
(***************************************************************************)
EXTENDS Integers, Sequences, FiniteSets, TLC

(***************************************************************************)
(* Constants defining the floating point format and the accumulators.      *)
(***************************************************************************)
XSUM_MANTISSA_BITS == 52
XSUM_EXP_BITS == 11
XSUM_EXP_MASK == 2^XSUM_EXP_BITS - 1
XSUM_EXP_BIAS == 2^(XSUM_EXP_BITS - 1) - 1
XSUM_SIGN_BIT == XSUM_MANTISSA_BITS + XSUM_EXP_BITS
XSUM_SCHUNK_BITS == 64
XSUM_LOW_EXP_BITS == 5
XSUM_LOW_EXP_MASK == 2^XSUM_LOW_EXP_BITS - 1
XSUM_HIGH_EXP_BITS == XSUM_EXP_BITS - XSUM_LOW_EXP_BITS
XSUM_SCHUNKS == 2^XSUM_HIGH_EXP_BITS + 3
XSUM_LOW_MANTISSA_BITS == 2^XSUM_LOW_EXP_BITS
XSUM_HIGH_MANTISSA_BITS == XSUM_MANTISSA_BITS - XSUM_LOW_MANTISSA_BITS
XSUM_SMALL_CARRY_BITS == (XSUM_SCHUNK_BITS - 1) - XSUM_MANTISSA_BITS
XSUM_SMALL_CARRY_TERMS == 2^XSUM_SMALL_CARRY_BITS - 1
XSUM_LCOUNT_BITS == 64 - XSUM_MANTISSA_BITS
XSUM_LCHUNKS == 2^(XSUM_EXP_BITS + 1)

(***************************************************************************)
(* 64-bit machine words.                                                   *)
(***************************************************************************)
LimbBits == XSUM_SCHUNK_BITS \div 4
LimbBase == 2^LimbBits
LimbMax  == LimbBase - 1

\* a, b, c, d are the four 16-bit groups of a word written in hexadecimal,
\* most significant first.
W64(a, b, c, d) == <<d, c, b, a>>

Zero64     == W64(0, 0, 0, 0)
One64      == W64(0, 0, 0, 1)
MinusOne64 == W64(\hFFFF, \hFFFF, \hFFFF, \hFFFF)

\* a + b modulo 2^64
Add64(a, b) ==
  LET s1 == a[1] + b[1]
      s2 == a[2] + b[2] + (s1 \div LimbBase)
      s3 == a[3] + b[3] + (s2 \div LimbBase)
      s4 == a[4] + b[4] + (s3 \div LimbBase)
  IN  <<s1 % LimbBase, s2 % LimbBase, s3 % LimbBase, s4 % LimbBase>>

\* ~a
Not64(a) == <<LimbMax - a[1], LimbMax - a[2], LimbMax - a[3], LimbMax - a[4]>>

\* -a modulo 2^64
Neg64(a) == Add64(Not64(a), One64)

\* a - b modulo 2^64
Sub64(a, b) == Add64(a, Neg64(b))

\* the sign bit of a word read as a signed integer
IsNeg64(a) == a[4] >= 2^15

\* a << k, 0 <= k <= 63
Shl64(a, k) ==
  LET q == k \div LimbBits
      r == k % LimbBits
      lo(j) == IF j \in 1..4 THEN (a[j] * 2^r) % LimbBase ELSE 0
      hi(j) == IF j \in 1..4 THEN a[j] \div 2^(LimbBits - r) ELSE 0
  IN  [i \in 1..4 |-> lo(i - q) + hi(i - q - 1)]

\* a >> k with the vacated bits taken from limbs of value fill
ShrFill64(a, k, fill) ==
  LET q == k \div LimbBits
      r == k % LimbBits
      g(j) == IF j \in 1..4 THEN a[j] ELSE fill
  IN  [i \in 1..4 |-> (g(i + q) \div 2^r) + (g(i + q + 1) % 2^r) * 2^(LimbBits - r)]

\* a >> k on an unsigned word
ShrU64(a, k) == ShrFill64(a, k, 0)

\* a >> k on a signed word (arithmetic shift)
ShrS64(a, k) == ShrFill64(a, k, IF IsNeg64(a) THEN LimbMax ELSE 0)

\* a & ((1 << k) - 1), 0 <= k <= 64
LowBits64(a, k) ==
  [i \in 1..4 |->
     LET n == k - LimbBits * (i - 1)
     IN  IF n >= LimbBits THEN a[i] ELSE IF n <= 0 THEN 0 ELSE a[i] % 2^n]

\* a & ~((1 << k) - 1)
HighBits64(a, k) == Sub64(a, LowBits64(a, k))

\* bit k of a
Bit64(a, k) == (a[(k \div LimbBits) + 1] \div 2^(k % LimbBits)) % 2

\* a | (1 << k)
SetBit64(a, k) == IF Bit64(a, k) = 1 THEN a ELSE Add64(a, Shl64(One64, k))

\* a & ~(1 << k)
ClearBit64(a, k) == IF Bit64(a, k) = 0 THEN a ELSE Sub64(a, Shl64(One64, k))

\* unsigned a < b
LtU64(a, b) ==
  \/ a[4] < b[4]
  \/ a[4] = b[4] /\ a[3] < b[3]
  \/ a[4] = b[4] /\ a[3] = b[3] /\ a[2] < b[2]
  \/ a[4] = b[4] /\ a[3] = b[3] /\ a[2] = b[2] /\ a[1] < b[1]

\* signed a < b
LtS64(a, b) ==
  IF IsNeg64(a) # IsNeg64(b) THEN IsNeg64(a) ELSE LtU64(a, b)

\* the word of a natural number below 2^31
FromNat(n) == <<n % LimbBase, n \div LimbBase, 0, 0>>

\* the natural number of a word below 2^31
ToNat(a) == a[1] + a[2] * LimbBase

\* position of the uppermost 1 bit of a non-zero word
RECURSIVE TopBit16(_)
TopBit16(n) == IF n <= 1 THEN 0 ELSE 1 + TopBit16(n \div 2)

TopBit64(a) ==
  IF a[4] # 0 THEN 48 + TopBit16(a[4])
  ELSE IF a[3] # 0 THEN 32 + TopBit16(a[3])
  ELSE IF a[2] # 0 THEN 16 + TopBit16(a[2])
  ELSE TopBit16(a[1])

(***************************************************************************)
(* Floating point operations of the host that the source relies on.        *)
(***************************************************************************)
XSUM_MANTISSA_MASK == LowBits64(MinusOne64, XSUM_MANTISSA_BITS)
XSUM_SIGN_MASK == Shl64(One64, XSUM_SIGN_BIT)
XSUM_LOW_MANTISSA_MASK == LowBits64(MinusOne64, XSUM_LOW_MANTISSA_BITS)

\* (ivalue >> XSUM_MANTISSA_BITS) & XSUM_EXP_MASK
ExpField(ivalue) ==
  ToNat(LowBits64(ShrS64(ivalue, XSUM_MANTISSA_BITS), XSUM_EXP_BITS))

\* The default quiet NaN an invalid operation produces (sign set, as on x86-64).
DefaultNaN == W64(\hFFF8, 0, 0, 0)

\* u.fltv - u.fltv on the bit pattern u: +0.0 for a finite value, the default
\* NaN for an infinity, the quieted operand for a NaN.
FltSubSelf(u) ==
  IF ExpField(u) # XSUM_EXP_MASK THEN Zero64
  ELSE IF LowBits64(u, XSUM_MANTISSA_BITS) = Zero64 THEN DefaultNaN
  ELSE SetBit64(u, XSUM_MANTISSA_BITS - 1)

\* The biased exponent field of static_cast<xsum_flt>(ivalue), ivalue a signed
\* 64-bit integer: the conversion rounds to nearest even when the magnitude
\* has more than 53 significant bits.
ExpOfInt2Flt(ivalue) ==
  IF ivalue = Zero64 THEN 0
  ELSE LET mag == IF IsNeg64(ivalue) THEN Neg64(ivalue) ELSE ivalue
           t   == TopBit64(mag)
           carries ==
             /\ t > XSUM_MANTISSA_BITS
             /\ ShrU64(mag, t - XSUM_MANTISSA_BITS - 1)
                  = LowBits64(MinusOne64, XSUM_MANTISSA_BITS + 2)
       IN  XSUM_EXP_BIAS + t + (IF carries THEN 1 ELSE 0)

(***************************************************************************)
(* The small accumulator.                                                  *)
(***************************************************************************)
\* struct xsum_small_accumulator with its default member initialisers
xsum_small_accumulator ==
  [ chunk |-> [i \in 0..(XSUM_SCHUNKS - 1) |-> Zero64],
    Inf |-> Zero64,
    NaN |-> Zero64,
    adds_until_propagate |-> XSUM_SMALL_CARRY_TERMS ]

\* chunk[a] | ... | chunk[b] is non-zero
AnyNonZero(chunk, a, b) == \E k \in a..b : chunk[k] # Zero64

\* The do loop that looks, from index u down, for a group of four chunks
\* holding a non-zero chunk: found, and the index at which the search stopped.
RECURSIVE cp_find_group(_, _)
cp_find_group(chunk, u) ==
  IF u < 0 THEN [u |-> u, found |-> FALSE]
  ELSE IF AnyNonZero(chunk, u - 3, u) THEN [u |-> u, found |-> TRUE]
  ELSE cp_find_group(chunk, u - 4)

\* The switch on XSUM_SCHUNKS & 0x3 and the following do loop: found, and the
\* index u at which the search stopped.
cp_find_top(chunk) ==
  IF chunk[XSUM_SCHUNKS - 1] # Zero64 THEN [u |-> XSUM_SCHUNKS - 1, found |-> TRUE]
  ELSE IF chunk[XSUM_SCHUNKS - 2] # Zero64 THEN [u |-> XSUM_SCHUNKS - 2, found |-> TRUE]
  ELSE IF chunk[XSUM_SCHUNKS - 3] # Zero64 THEN [u |-> XSUM_SCHUNKS - 3, found |-> TRUE]
  ELSE cp_find_group(chunk, XSUM_SCHUNKS - 4)

\* while (sacc->chunk[u] == 0) --u;  chunk holds a non-zero chunk at or
\* below index u
RECURSIVE cp_skip_zero_down(_, _)
cp_skip_zero_down(chunk, u) ==
  IF chunk[u] = Zero64 THEN cp_skip_zero_down(chunk, u - 1) ELSE u

\* the quick skip over unused low-order chunks, four at a time, from index i
\* while i <= e
RECURSIVE cp_skip_low(_, _, _)
cp_skip_low(chunk, e, i) ==
  IF i <= e /\ ~AnyNonZero(chunk, i, i + 3) THEN cp_skip_low(chunk, e, i + 4) ELSE i

\* One pass of the main loop of xsum_carry_propagate at position st.i, with
\* loop limit st.u and st.uix the uppermost chunk known to be non-zero (-1
\* if none yet); a zero chunk is passed over.
cp_loop_step(st) ==
  IF st.i > st.u THEN st
  ELSE IF st.chunk[st.i] = Zero64 THEN [st EXCEPT !.i = @ + 1]
  ELSE
    LET i == st.i
        c == st.chunk[i]
        chigh == ShrS64(c, XSUM_LOW_MANTISSA_BITS)
        clow == LowBits64(c, XSUM_LOW_MANTISSA_BITS)
    IN  IF chigh = Zero64 THEN [st EXCEPT !.uix = i, !.i = i + 1]
        ELSE IF st.u = i /\ chigh = MinusOne64
        THEN [st EXCEPT !.uix = i, !.i = st.u + 1]
        ELSE [chunk |-> [st.chunk EXCEPT ![i] = clow, ![i + 1] = Add64(@, chigh)],
              i |-> i + 1,
              u |-> IF st.u = i THEN i + 1 ELSE st.u,
              uix |-> IF clow # Zero64 THEN i ELSE st.uix]

\* The main loop of xsum_carry_propagate run for at most n passes; the first
\* half of the passes is evaluated before the second half.
RECURSIVE cp_loop(_, _)
cp_loop(st, n) ==
  IF n <= 0 THEN st
  ELSE IF n = 1 THEN cp_loop_step(st)
  ELSE LET mid == cp_loop(st, n \div 2)
       IN  IF Len(<<mid>>) = 1 THEN cp_loop(mid, n - (n \div 2)) ELSE mid

\* an iteration that leaves an uppermost chunk of -1 where it is
cp_fold_minus_one_step_none(st) == st

\* an iteration that clears an uppermost chunk of -1 and forgets what it stood
\* for in the chunk below
cp_fold_minus_one_step_dropped(st) ==
  IF st.chunk[st.uix] = MinusOne64 /\ st.uix > 0
  THEN [st EXCEPT !.chunk[st.uix] = Zero64, !.uix = @ - 1]
  ELSE st

\* One iteration of
\* while (sacc->chunk[uix] == -1 && uix > 0) { ... }
cp_fold_minus_one_step(st) ==
  IF st.chunk[st.uix] = MinusOne64 /\ st.uix > 0
  THEN [st EXCEPT !.chunk[st.uix] = Zero64,
                  !.chunk[st.uix - 1] = Sub64(@, Shl64(One64, XSUM_LOW_MANTISSA_BITS)),
                  !.uix = @ - 1]
  ELSE st

\* while (sacc->chunk[uix] == -1 && uix > 0) { ... } run for at most n
\* iterations
RECURSIVE cp_fold_minus_one(_, _)
cp_fold_minus_one(st, n) ==
  IF n <= 0 THEN st
  ELSE IF n = 1 THEN cp_fold_minus_one_step(st)
  ELSE LET mid == cp_fold_minus_one(st, n \div 2)
       IN  IF Len(<<mid>>) = 1 THEN cp_fold_minus_one(mid, n - (n \div 2)) ELSE mid

\* the end of xsum_carry_propagate: the counter is reset and uix returned
cp_done(sacc, chunk, uix) ==
  [sacc |-> [sacc EXCEPT !.chunk = chunk,
                         !.adds_until_propagate = XSUM_SMALL_CARRY_TERMS - 1],
   ret |-> uix]

\* the end of xsum_carry_propagate after the folding loop has left f
cp_fold_done(sacc, f) == cp_done(sacc, f.chunk, f.uix)

\* xsum_carry_propagate after its main loop has left the chunks and uix of r:
\* nothing non-zero gives 0, else the uppermost chunks of -1 are folded down
cp_finish(sacc, r) ==
  IF r.uix < 0 THEN cp_done(sacc, r.chunk, 0)
  ELSE cp_fold_done(sacc, cp_fold_minus_one([chunk |-> r.chunk, uix |-> r.uix], r.uix))

\* the main loop of xsum_carry_propagate from index i up to the limit u
cp_run(sacc, u, i) ==
  cp_finish(sacc, cp_loop([chunk |-> sacc.chunk, i |-> i, u |-> u, uix |-> -1],
                          u - i + 2))

\* xsum_carry_propagate from the uppermost non-zero chunk u on: the low-order
\* zero chunks are skipped and the main loop run from there up to u
cp_from(sacc, u) == cp_run(sacc, u, cp_skip_low(sacc.chunk, u - 3, 0))

\* xsum_carry_propagate once the uppermost chunks have been searched
cp_top(sacc, top) ==
  IF ~top.found THEN cp_done(sacc, sacc.chunk, 0)
  ELSE cp_from(sacc, cp_skip_zero_down(sacc.chunk, top.u))

\* xsum_carry_propagate: the accumulator afterwards and the value returned
xsum_carry_propagate(sacc) == cp_top(sacc, cp_find_top(sacc.chunk))

\* an Inf/NaN step that keeps the last infinity it saw, whatever came before
xsum_small_add_inf_nan_last(sacc, ivalue) ==
  LET mantissa == LowBits64(ivalue, XSUM_MANTISSA_BITS)
  IN  IF mantissa = Zero64 THEN [sacc EXCEPT !.Inf = ivalue]
      ELSE IF ~LtU64(mantissa, LowBits64(sacc.NaN, XSUM_MANTISSA_BITS))
           THEN [sacc EXCEPT !.NaN = ClearBit64(ivalue, XSUM_SIGN_BIT)]
           ELSE sacc

\* an Inf/NaN step that records a NaN as it came, its sign bit included
xsum_small_add_inf_nan_signed(sacc, ivalue) ==
  LET mantissa == LowBits64(ivalue, XSUM_MANTISSA_BITS)
  IN  IF mantissa = Zero64
      THEN IF sacc.Inf = Zero64 THEN [sacc EXCEPT !.Inf = ivalue]
           ELSE IF sacc.Inf # ivalue THEN [sacc EXCEPT !.Inf = FltSubSelf(ivalue)]
           ELSE sacc
      ELSE IF ~LtU64(mantissa, LowBits64(sacc.NaN, XSUM_MANTISSA_BITS))
           THEN [sacc EXCEPT !.NaN = ivalue]
           ELSE sacc

\* xsum_small_add_inf_nan
xsum_small_add_inf_nan(sacc, ivalue) ==
  LET mantissa == LowBits64(ivalue, XSUM_MANTISSA_BITS)
  IN  IF mantissa = Zero64
      THEN IF sacc.Inf = Zero64 THEN [sacc EXCEPT !.Inf = ivalue]
           ELSE IF sacc.Inf # ivalue THEN [sacc EXCEPT !.Inf = FltSubSelf(ivalue)]
           ELSE sacc
      ELSE IF ~LtU64(mantissa, LowBits64(sacc.NaN, XSUM_MANTISSA_BITS))
           THEN [sacc EXCEPT !.NaN = ClearBit64(ivalue, XSUM_SIGN_BIT)]
           ELSE sacc

\* xsum_add_no_carry(sacc, value) for one floating point value
xsum_add_no_carry(sacc, value) ==
  LET ivalue == value
      mantissa0 == LowBits64(ivalue, XSUM_MANTISSA_BITS)
      exp0 == ExpField(ivalue)
  IN  IF exp0 = 0 /\ mantissa0 = Zero64 THEN sacc
      ELSE IF exp0 = XSUM_EXP_MASK THEN xsum_small_add_inf_nan(sacc, ivalue)
      ELSE
        LET mantissa == IF exp0 # 0 THEN SetBit64(mantissa0, XSUM_MANTISSA_BITS)
                        ELSE mantissa0
            exp == IF exp0 = 0 THEN 1 ELSE exp0
            low_exp == exp % 2^XSUM_LOW_EXP_BITS
            high_exp == exp \div 2^XSUM_LOW_EXP_BITS
            low_mantissa == LowBits64(Shl64(mantissa, low_exp), XSUM_LOW_MANTISSA_BITS)
            high_mantissa == ShrS64(mantissa, XSUM_LOW_MANTISSA_BITS - low_exp)
        IN  IF IsNeg64(ivalue)
            THEN [sacc EXCEPT !.chunk[high_exp] = Sub64(@, low_mantissa),
                              !.chunk[high_exp + 1] = Sub64(@, high_mantissa)]
            ELSE [sacc EXCEPT !.chunk[high_exp] = Add64(@, low_mantissa),
                              !.chunk[high_exp + 1] = Add64(@, high_mantissa)]

\* xsum_add_no_carry(sacc, value) for another small accumulator
xsum_add_no_carry_sacc(sacc, value) ==
  IF value.Inf # Zero64
  THEN IF sacc.Inf = Zero64 THEN [sacc EXCEPT !.Inf = value.Inf]
       ELSE IF sacc.Inf # value.Inf THEN [sacc EXCEPT !.Inf = FltSubSelf(value.Inf)]
       ELSE sacc
  ELSE IF value.NaN # Zero64 \/ sacc.NaN # Zero64
  THEN IF /\ value.NaN # Zero64
          /\ LtU64(LowBits64(sacc.NaN, XSUM_MANTISSA_BITS),
                   LowBits64(value.NaN, XSUM_MANTISSA_BITS))
       THEN [sacc EXCEPT !.NaN = value.NaN]
       ELSE sacc
  ELSE [sacc EXCEPT !.chunk = [i \in 0..(XSUM_SCHUNKS - 1) |->
                                 Add64(sacc.chunk[i], value.chunk[i])]]

\* xsum_add_no_carry(sacc, vec, n): adds vec[0] .. vec[n-2] in order; the
\* values are vec[from] .. vec[from + n - 2] of the sequence vec (indexed
\* from 1).
RECURSIVE xsum_add_no_carry_vec(_, _, _, _)
xsum_add_no_carry_vec(sacc, vec, from, n) ==
  IF n <= 1 THEN sacc
  ELSE xsum_add_no_carry_vec(xsum_add_no_carry(sacc, vec[from]), vec, from + 1, n - 1)

\* an addition that goes ahead with the counter at zero
propagate_if_needed_skipped(sacc) == sacc

\* if (sacc->adds_until_propagate == 0) xsum_carry_propagate(sacc);
propagate_if_needed(sacc) ==
  IF sacc.adds_until_propagate = 0 THEN xsum_carry_propagate(sacc).sacc ELSE sacc

\* a count of the additions that forgets them
less_until_propagate_never(sacc, m) == sacc

\* sacc->adds_until_propagate -= m
less_until_propagate(sacc, m) == [sacc EXCEPT !.adds_until_propagate = @ - m]

\* xsum_add<xsum_small_accumulator>(sacc, value)
xsum_add_small(sacc, value) ==
  less_until_propagate(xsum_add_no_carry(propagate_if_needed(sacc), value), 1)

\* xsum_add(sacc, value) for another small accumulator
xsum_add_small_sacc(sacc, value) ==
  less_until_propagate(xsum_add_no_carry_sacc(propagate_if_needed(sacc), value), 1)

\* m = (n - 1 <= sacc->adds_until_propagate) ? n - 1 : sacc->adds_until_propagate
small_vec_m(sacc, n) ==
  IF n - 1 <= sacc.adds_until_propagate THEN n - 1 ELSE sacc.adds_until_propagate

\* The while (n > 1) loop of xsum_add<xsum_small_accumulator>(sacc, vec, c)
\* and the final add of the last value; xsum_add_small_vec_pass is the body
\* of the loop after the carry propagation, adding m values.
RECURSIVE xsum_add_small_vec_loop(_, _, _, _)
RECURSIVE xsum_add_small_vec_pass(_, _, _, _, _)
xsum_add_small_vec_pass(s1, vec, from, n, m) ==
  xsum_add_small_vec_loop(
    less_until_propagate(xsum_add_no_carry_vec(s1, vec, from, m + 1), m),
    vec, from + m, n - m)

xsum_add_small_vec_propagated(s1, vec, from, n) ==
  xsum_add_small_vec_pass(s1, vec, from, n, small_vec_m(s1, n))

xsum_add_small_vec_loop(sacc, vec, from, n) ==
  IF n > 1 THEN xsum_add_small_vec_propagated(propagate_if_needed(sacc), vec, from, n)
  ELSE xsum_add_small(sacc, vec[from])

\* xsum_add<xsum_small_accumulator>(sacc, vec, c)
xsum_add_small_vec(sacc, vec) ==
  IF Len(vec) = 0 THEN sacc ELSE xsum_add_small_vec_loop(sacc, vec, 1, Len(vec))

\* The end of xsum_round<xsum_small_accumulator>: iv3 holds the mantissa with
\* two extra low-order bits, lower and the chunks below index j what lies below
\* it, e1 the exponent within chunk i.  The magnitude is rounded to nearest,
\* ties to even, and the sign, exponent and mantissa are put together.
xsum_round_nearest(chunk, i, j, e1, iv3, lower) ==
  LET negative == IsNeg64(iv3)
      sign == IF negative THEN XSUM_SIGN_MASK ELSE Zero64
      iv4 == IF negative THEN Neg64(iv3) ELSE iv3
      \* any non-zero chunk below index j
      tail == \E k \in 0..(j - 1) : chunk[k] # Zero64
      away ==
        /\ Bit64(iv4, 0) = 1
        /\ IF ~negative
           THEN Bit64(iv4, 1) = 1 \/ lower # Zero64 \/ tail
           ELSE Bit64(iv4, 1) = 1 /\ lower = Zero64 /\ ~tail
      iv5 == IF away THEN Add64(iv4, FromNat(2)) ELSE iv4
      carried == away /\ Bit64(iv5, XSUM_MANTISSA_BITS + 2) = 1
      iv6 == IF carried THEN ShrS64(iv5, 1) ELSE iv5
      e2 == IF carried THEN e1 + 1 ELSE e1
      iv7 == ShrS64(iv6, 1)
      e == e2 + i * 2^XSUM_LOW_EXP_BITS - XSUM_EXP_BIAS - XSUM_MANTISSA_BITS
  IN  IF e >= XSUM_EXP_MASK
      THEN Add64(sign, Shl64(FromNat(XSUM_EXP_MASK), XSUM_MANTISSA_BITS))
      ELSE Add64(Add64(sign, Shl64(FromNat(e), XSUM_MANTISSA_BITS)),
                 LowBits64(iv7, XSUM_MANTISSA_BITS))

\* The step of xsum_round<xsum_small_accumulator> for a negative ivalue whose
\* negation lacks a full mantissa plus one bit: ivalue is doubled, the top
\* remaining bit of lower (at position pos) is moved into it, and the exponent
\* is decremented.
xsum_round_short(chunk, i, j, e0, more, iv2, lower1) ==
  LET short == IsNeg64(iv2) /\ Bit64(Neg64(iv2), XSUM_MANTISSA_BITS + 1) = 0
      pos == XSUM_LOW_MANTISSA_BITS - 1 - more
      d == Shl64(iv2, 1)
  IN  IF short
      THEN xsum_round_nearest(chunk, i, j, e0 - 1,
                              IF Bit64(lower1, pos) = 1 THEN SetBit64(d, 0) ELSE d,
                              ClearBit64(lower1, pos))
      ELSE xsum_round_nearest(chunk, i, j, e0, iv2, lower1)

\* The step of xsum_round<xsum_small_accumulator> that fills the mantissa from
\* the chunk at index j, iv1 holding what the chunks above it gave and more
\* the number of bits still wanted.
xsum_round_lower(chunk, i, j, e0, more, iv1) ==
  xsum_round_short(chunk, i, j, e0, more,
                   Add64(iv1, ShrS64(IF j < 0 THEN Zero64 ELSE chunk[j],
                                     XSUM_LOW_MANTISSA_BITS - more)),
                   LowBits64(IF j < 0 THEN Zero64 ELSE chunk[j],
                             XSUM_LOW_MANTISSA_BITS - more))

\* The step of xsum_round<xsum_small_accumulator> that shifts the uppermost
\* chunk left by more0 bits and, when that leaves room for a whole chunk,
\* adds in the next one down; e0 is the exponent found for ivalue0.
xsum_round_fill(chunk, i, ivalue0, e0, more0) ==
  IF more0 >= XSUM_LOW_MANTISSA_BITS
  THEN xsum_round_lower(chunk, i, i - 2, e0, more0 - XSUM_LOW_MANTISSA_BITS,
                        Add64(Shl64(ivalue0, more0),
                              Shl64(chunk[i - 1], more0 - XSUM_LOW_MANTISSA_BITS)))
  ELSE xsum_round_lower(chunk, i, i - 1, e0, more0, Shl64(ivalue0, more0))

\* xsum_round<xsum_small_accumulator> with the exponent e0 of the uppermost
\* chunk known
xsum_round_exp(chunk, i, ivalue0, e0) ==
  xsum_round_fill(chunk, i, ivalue0, e0, 1 + XSUM_MANTISSA_BITS + XSUM_EXP_BIAS - e0)

\* The rounding of xsum_round<xsum_small_accumulator> once carries have been
\* propagated: chunk is the propagated chunk array, i the index of its
\* uppermost non-zero chunk (i >= 1), ivalue0 = chunk[i].
xsum_round_normal(chunk, i, ivalue0) ==
  xsum_round_exp(chunk, i, ivalue0, ExpOfInt2Flt(ivalue0))

\* xsum_round<xsum_small_accumulator> for i = 0: a denormalized value or zero
xsum_round_denorm(ivalue) ==
  IF IsNeg64(ivalue) THEN SetBit64(ShrS64(Neg64(ivalue), 1), XSUM_SIGN_BIT)
  ELSE ShrS64(ivalue, 1)

\* xsum_round<xsum_small_accumulator> for i = 1: u is the value of the two
\* lowest chunks; it is a denormalized value if it is small enough, and is
\* rounded as any other value otherwise
xsum_round_low(chunk, i, ivalue, u) ==
  IF IsNeg64(u) /\ LtS64(Neg64(Shl64(One64, XSUM_MANTISSA_BITS)), u)
  THEN SetBit64(Neg64(u), XSUM_SIGN_BIT)
  ELSE IF ~IsNeg64(u) /\ LtU64(u, Shl64(One64, XSUM_MANTISSA_BITS)) THEN u
  ELSE xsum_round_normal(chunk, i, ivalue)

\* xsum_round<xsum_small_accumulator> on the propagated chunks: the value
\* returned, i the index of the uppermost non-zero chunk and ivalue = chunk[i]
xsum_round_value(chunk, i, ivalue) ==
  IF i <= 1 /\ ivalue = Zero64 THEN Zero64
  ELSE IF i = 0 THEN xsum_round_denorm(ivalue)
  ELSE IF i = 1
  THEN xsum_round_low(chunk, i, ivalue,
                      Add64(Shl64(ivalue, XSUM_LOW_MANTISSA_BITS - 1),
                            ShrS64(chunk[0], 1)))
  ELSE xsum_round_normal(chunk, i, ivalue)

\* xsum_round<xsum_small_accumulator> after the carry propagation cp
xsum_round_propagated(cp) ==
  [sacc |-> cp.sacc,
   ret |-> xsum_round_value(cp.sacc.chunk, cp.ret, cp.sacc.chunk[cp.ret])]

\* xsum_round<xsum_small_accumulator>: the accumulator afterwards and the bit
\* pattern of the value returned
xsum_round_small(sacc0) ==
  IF sacc0.NaN # Zero64 THEN [sacc |-> sacc0, ret |-> sacc0.NaN]
  ELSE IF sacc0.Inf # Zero64 THEN [sacc |-> sacc0, ret |-> sacc0.Inf]
  ELSE xsum_round_propagated(xsum_carry_propagate(sacc0))

(***************************************************************************)
(* The large accumulator.                                                  *)
(***************************************************************************)
\* struct xsum_large_accumulator after its constructor: the constructor fills
\* count with -1 and the member initialisers clear the flags and the small
\* accumulator; chunk is left uninitialised, every element reading as the
\* word garbage.
xsum_large_accumulator(garbage) ==
  [ chunk |-> [i \in 0..(XSUM_LCHUNKS - 1) |-> garbage],
    count |-> [i \in 0..(XSUM_LCHUNKS - 1) |-> -1],
    chunks_used |-> [i \in 0..((XSUM_LCHUNKS \div 64) - 1) |-> Zero64],
    used_used |-> Zero64,
    sacc |-> xsum_small_accumulator ]

\* u.uintv >> XSUM_MANTISSA_BITS: the sign and exponent bits that index the chunk
ChunkIndex(uintv) == ToNat(ShrU64(uintv, XSUM_MANTISSA_BITS))

\* a transfer of a chunk that leaves out the implicit 1 bits of the values
lchunk_into_small_mantissas(lacc, ix) ==
  LET count == lacc.count[ix]
      sacc0 == propagate_if_needed(lacc.sacc)
      chunk0 == lacc.chunk[ix]
      chunk == IF count > 0
               THEN Add64(chunk0, Shl64(FromNat(count * ix), XSUM_MANTISSA_BITS))
               ELSE chunk0
      exp == ix % 2^XSUM_EXP_BITS
      low_exp == IF exp = 0 THEN 1 ELSE exp % 2^XSUM_LOW_EXP_BITS
      high_exp == IF exp = 0 THEN 0 ELSE exp \div 2^XSUM_LOW_EXP_BITS
      low_chunk == LowBits64(Shl64(chunk, low_exp), XSUM_LOW_MANTISSA_BITS)
      mid1 == ShrU64(chunk, XSUM_LOW_MANTISSA_BITS - low_exp)
      high_chunk == ShrU64(mid1, XSUM_LOW_MANTISSA_BITS)
      mid_chunk == LowBits64(mid1, XSUM_LOW_MANTISSA_BITS)
      negative == (ix \div 2^XSUM_EXP_BITS) % 2 = 1
      op(a, b) == IF negative THEN Sub64(a, b) ELSE Add64(a, b)
      sacc1 == [sacc0 EXCEPT !.chunk[high_exp] = op(@, low_chunk),
                             !.chunk[high_exp + 1] = op(@, mid_chunk),
                             !.chunk[high_exp + 2] = op(@, high_chunk),
                             !.adds_until_propagate = @ - 1]
  IN  [lacc EXCEPT !.sacc = IF count >= 0 THEN sacc1 ELSE @]

\* xsum_add_lchunk_to_small, its first part: the chunk, with the exponent and
\* sign bits its count stands for, goes into the small accumulator
lchunk_into_small(lacc, ix) ==
  LET count == lacc.count[ix]
      sacc0 == propagate_if_needed(lacc.sacc)
      chunk0 == lacc.chunk[ix]
      chunk == IF count > 0
               THEN Add64(chunk0, Shl64(FromNat(count * ix), XSUM_MANTISSA_BITS))
               ELSE chunk0
      exp == ix % 2^XSUM_EXP_BITS
      low_exp == IF exp = 0 THEN 1 ELSE exp % 2^XSUM_LOW_EXP_BITS
      high_exp == IF exp = 0 THEN 0 ELSE exp \div 2^XSUM_LOW_EXP_BITS
      low_chunk == LowBits64(Shl64(chunk, low_exp), XSUM_LOW_MANTISSA_BITS)
      mid0 == ShrU64(chunk, XSUM_LOW_MANTISSA_BITS - low_exp)
      mid1 == IF exp # 0
              THEN Add64(mid0, Shl64(FromNat(2^XSUM_LCOUNT_BITS - count),
                                     XSUM_MANTISSA_BITS - XSUM_LOW_MANTISSA_BITS + low_exp))
              ELSE mid0
      high_chunk == ShrU64(mid1, XSUM_LOW_MANTISSA_BITS)
      mid_chunk == LowBits64(mid1, XSUM_LOW_MANTISSA_BITS)
      negative == (ix \div 2^XSUM_EXP_BITS) % 2 = 1
      op(a, b) == IF negative THEN Sub64(a, b) ELSE Add64(a, b)
      sacc1 == [sacc0 EXCEPT !.chunk[high_exp] = op(@, low_chunk),
                             !.chunk[high_exp + 1] = op(@, mid_chunk),
                             !.chunk[high_exp + 2] = op(@, high_chunk),
                             !.adds_until_propagate = @ - 1]
  IN  [lacc EXCEPT !.sacc = IF count >= 0 THEN sacc1 ELSE @]

\* a condensing step that marks the chunk as used but leaves its contents
xsum_add_lchunk_to_small_uncleared(lacc, ix) ==
  [lchunk_into_small(lacc, ix) EXCEPT
     !.count[ix] = 2^XSUM_LCOUNT_BITS,
     !.chunks_used[ix \div 64] = SetBit64(@, ix % 64),
     !.used_used = SetBit64(@, ix \div 64)]

\* a transfer that does not mark the chunk as used
xsum_add_lchunk_to_small_unmarked(lacc, ix) ==
  [lchunk_into_small(lacc, ix) EXCEPT
     !.chunk[ix] = Zero64,
     !.count[ix] = 2^XSUM_LCOUNT_BITS,
     !.used_used = SetBit64(@, ix \div 64)]

\* a transfer that does not mark the block of the chunk as used
xsum_add_lchunk_to_small_unsummarised(lacc, ix) ==
  [lchunk_into_small(lacc, ix) EXCEPT
     !.chunk[ix] = Zero64,
     !.count[ix] = 2^XSUM_LCOUNT_BITS,
     !.chunks_used[ix \div 64] = SetBit64(@, ix % 64)]

\* xsum_add_lchunk_to_small: the chunk is added to the small accumulator if its
\* count is not negative, then cleared, its count reset and its used bits set
xsum_add_lchunk_to_small(lacc, ix) ==
  [lchunk_into_small(lacc, ix) EXCEPT
     !.chunk[ix] = Zero64,
     !.count[ix] = 2^XSUM_LCOUNT_BITS,
     !.chunks_used[ix \div 64] = SetBit64(@, ix % 64),
     !.used_used = SetBit64(@, ix \div 64)]

\* a first use or refill of a chunk that does not count the value that
\* caused it
xsum_large_add_value_inf_nan_uncounted(lacc, ix, uintv) ==
  IF ix % 2^XSUM_EXP_BITS = XSUM_EXP_MASK
  THEN [lacc EXCEPT !.sacc = xsum_small_add_inf_nan(@, uintv)]
  ELSE LET l1 == xsum_add_lchunk_to_small(lacc, ix)
       IN  [l1 EXCEPT !.chunk[ix] = Add64(@, uintv)]

\* xsum_large_add_value_inf_nan
xsum_large_add_value_inf_nan(lacc, ix, uintv) ==
  IF ix % 2^XSUM_EXP_BITS = XSUM_EXP_MASK
  THEN [lacc EXCEPT !.sacc = xsum_small_add_inf_nan(@, uintv)]
  ELSE LET l1 == xsum_add_lchunk_to_small(lacc, ix)
       IN  [l1 EXCEPT !.count[ix] = @ - 1, !.chunk[ix] = Add64(@, uintv)]

\* xsum_add<xsum_large_accumulator>(lacc, value)
xsum_add_large(lacc, value) ==
  LET ix == ChunkIndex(value)
      count == lacc.count[ix] - 1
  IN  IF count < 0 THEN xsum_large_add_value_inf_nan(lacc, ix, value)
      ELSE [lacc EXCEPT !.count[ix] = count, !.chunk[ix] = Add64(@, value)]

\* a pass for one pair of values that processes a chunk whose count went
\* negative without first backing out the update already made to it
xsum_add_large_pair_kept(vec, st) ==
  IF st.m < 0 THEN st
  ELSE
    LET u1 == vec[st.j]
        u2 == vec[st.j + 1]
        ix1 == ChunkIndex(u1)
        count1 == st.lacc.count[ix1] - 1
        l1 == [st.lacc EXCEPT !.count[ix1] = count1, !.chunk[ix1] = Add64(@, u1)]
        ix2 == ChunkIndex(u2)
        count2 == l1.count[ix2] - 1
        l2 == [l1 EXCEPT !.count[ix2] = count2, !.chunk[ix2] = Add64(@, u2)]
        l3 == [l2 EXCEPT !.count[ix2] = count2 + 1]
        l4 == IF count1 < 0
              THEN xsum_large_add_value_inf_nan(
                     [l3 EXCEPT !.count[ix1] = count1 + 1], ix1, u1)
              ELSE l3
        count2b == IF count1 < 0 THEN l4.count[ix2] - 1 ELSE count2
        l5 == IF count2b < 0 THEN xsum_large_add_value_inf_nan(l4, ix2, u2)
              ELSE [l4 EXCEPT !.count[ix2] = count2b, !.chunk[ix2] = Add64(@, u2)]
    IN  [lacc |-> IF count1 < 0 \/ count2 < 0 THEN l5 ELSE l2,
         j |-> st.j + 2,
         m |-> st.m - 2]

\* a pass that counts one value where it has read two
xsum_add_large_pair_miscounted(vec, st) ==
  IF st.m < 0 THEN st
  ELSE
    LET u1 == vec[st.j]
        u2 == vec[st.j + 1]
        ix1 == ChunkIndex(u1)
        count1 == st.lacc.count[ix1] - 1
        l1 == [st.lacc EXCEPT !.count[ix1] = count1, !.chunk[ix1] = Add64(@, u1)]
        ix2 == ChunkIndex(u2)
        count2 == l1.count[ix2] - 1
        l2 == [l1 EXCEPT !.count[ix2] = count2, !.chunk[ix2] = Add64(@, u2)]
        l3 == [l2 EXCEPT !.count[ix2] = count2 + 1, !.chunk[ix2] = Sub64(@, u2)]
        l4 == IF count1 < 0
              THEN xsum_large_add_value_inf_nan(
                     [l3 EXCEPT !.count[ix1] = count1 + 1, !.chunk[ix1] = Sub64(@, u1)],
                     ix1, u1)
              ELSE l3
        count2b == IF count1 < 0 THEN l4.count[ix2] - 1 ELSE count2
        l5 == IF count2b < 0 THEN xsum_large_add_value_inf_nan(l4, ix2, u2)
              ELSE [l4 EXCEPT !.count[ix2] = count2b, !.chunk[ix2] = Add64(@, u2)]
    IN  [lacc |-> IF count1 < 0 \/ count2 < 0 THEN l5 ELSE l2,
         j |-> st.j + 2,
         m |-> st.m - 1]

\* a pass that takes back the addition to the chunk of the first value and
\* not the decrement of its count
xsum_add_large_pair_uncounted(vec, st) ==
  IF st.m < 0 THEN st
  ELSE
    LET u1 == vec[st.j]
        u2 == vec[st.j + 1]
        ix1 == ChunkIndex(u1)
        count1 == st.lacc.count[ix1] - 1
        l1 == [st.lacc EXCEPT !.count[ix1] = count1, !.chunk[ix1] = Add64(@, u1)]
        ix2 == ChunkIndex(u2)
        count2 == l1.count[ix2] - 1
        l2 == [l1 EXCEPT !.count[ix2] = count2, !.chunk[ix2] = Add64(@, u2)]
        l3 == [l2 EXCEPT !.count[ix2] = count2 + 1, !.chunk[ix2] = Sub64(@, u2)]
        l4 == IF count1 < 0
              THEN xsum_large_add_value_inf_nan(
                     [l3 EXCEPT !.chunk[ix1] = Sub64(@, u1)], ix1, u1)
              ELSE l3
        count2b == IF count1 < 0 THEN l4.count[ix2] - 1 ELSE count2
        l5 == IF count2b < 0 THEN xsum_large_add_value_inf_nan(l4, ix2, u2)
              ELSE [l4 EXCEPT !.count[ix2] = count2b, !.chunk[ix2] = Add64(@, u2)]
    IN  [lacc |-> IF count1 < 0 \/ count2 < 0 THEN l5 ELSE l2,
         j |-> st.j + 2,
         m |-> st.m - 2]

\* One pass of the body of while (m >= 0) in
\* xsum_add<xsum_large_accumulator>(lacc, vec, n) for one pair of values: the
\* update of both chunks before it is known whether it ought to be done, and
\* the backing out and proper processing when a count went negative.
\* st.j is the position in vec (indexed from 1) of the next value.
xsum_add_large_pair(vec, st) ==
  IF st.m < 0 THEN st
  ELSE
    LET u1 == vec[st.j]
        u2 == vec[st.j + 1]
        ix1 == ChunkIndex(u1)
        count1 == st.lacc.count[ix1] - 1
        l1 == [st.lacc EXCEPT !.count[ix1] = count1, !.chunk[ix1] = Add64(@, u1)]
        ix2 == ChunkIndex(u2)
        count2 == l1.count[ix2] - 1
        l2 == [l1 EXCEPT !.count[ix2] = count2, !.chunk[ix2] = Add64(@, u2)]
        l3 == [l2 EXCEPT !.count[ix2] = count2 + 1, !.chunk[ix2] = Sub64(@, u2)]
        l4 == IF count1 < 0
              THEN xsum_large_add_value_inf_nan(
                     [l3 EXCEPT !.count[ix1] = count1 + 1, !.chunk[ix1] = Sub64(@, u1)],
                     ix1, u1)
              ELSE l3
        count2b == IF count1 < 0 THEN l4.count[ix2] - 1 ELSE count2
        l5 == IF count2b < 0 THEN xsum_large_add_value_inf_nan(l4, ix2, u2)
              ELSE [l4 EXCEPT !.count[ix2] = count2b, !.chunk[ix2] = Add64(@, u2)]
    IN  [lacc |-> IF count1 < 0 \/ count2 < 0 THEN l5 ELSE l2,
         j |-> st.j + 2,
         m |-> st.m - 2]

\* while (m >= 0) { ... } of xsum_add<xsum_large_accumulator>(lacc, vec, n)
RECURSIVE xsum_add_large_pairs(_, _)
xsum_add_large_pairs(vec, st) ==
  IF st.m < 0 THEN st ELSE xsum_add_large_pairs(vec, xsum_add_large_pair(vec, st))

\* The last one or two values: for (;;) { ...; --m; if (m == 0) break; }
RECURSIVE xsum_add_large_last(_, _)
xsum_add_large_last(vec, st) ==
  IF st.m = 1 THEN xsum_add_large(st.lacc, vec[st.j])
  ELSE xsum_add_large_last(vec, [lacc |-> xsum_add_large(st.lacc, vec[st.j]),
                                 j |-> st.j + 1,
                                 m |-> st.m - 1])

\* m += 3 and the loop over the last one or two values
xsum_add_large_tail(vec, st) == xsum_add_large_last(vec, [st EXCEPT !.m = @ + 3])

\* xsum_add<xsum_large_accumulator>(lacc, vec, n), vec a sequence of n values
xsum_add_large_vec(lacc, vec) ==
  IF Len(vec) = 0 THEN lacc
  ELSE xsum_add_large_tail(
         vec, xsum_add_large_pairs(vec, [lacc |-> lacc, j |-> 1, m |-> Len(vec) - 3]))

\* The skip over unused low-order blocks by the used_used flags: the index
\* of the first block xsum_round_to_small looks at.
rts_first_block(used_used) ==
  LET a == LowBits64(used_used, 32) = Zero64
      uu1 == IF a THEN ShrU64(used_used, 32) ELSE used_used
      b == LowBits64(uu1, 16) = Zero64
      uu2 == IF b THEN ShrU64(uu1, 16) ELSE uu1
      c == LowBits64(uu2, 8) = Zero64
  IN  (IF a THEN 32 ELSE 0) + (IF b THEN 16 ELSE 0) + (IF c THEN 8 ELSE 0)

\* The skip within a block of used flags u (non-zero) at index p: the first
\* chunk index looked at and the flags shifted to it.
rts_first_chunk(p, u) ==
  LET a == LowBits64(u, 32) = Zero64
      u1 == IF a THEN ShrU64(u, 32) ELSE u
      b == LowBits64(u1, 16) = Zero64
      u2 == IF b THEN ShrU64(u1, 16) ELSE u1
      c == LowBits64(u2, 8) = Zero64
      u3 == IF c THEN ShrU64(u2, 8) ELSE u2
  IN  [ix |-> p * 64 + (IF a THEN 32 ELSE 0) + (IF b THEN 16 ELSE 0)
                     + (IF c THEN 8 ELSE 0),
       u |-> u3]

\* One iteration of do { if (lacc->count[ix] >= 0) ...; ++ix; u >>= 1; }
\* while (u != 0) of xsum_round_to_small
rts_chunk_step(st) ==
  IF st.u = Zero64 THEN st
  ELSE [lacc |-> IF st.lacc.count[st.ix] >= 0
                 THEN xsum_add_lchunk_to_small(st.lacc, st.ix)
                 ELSE st.lacc,
        ix |-> st.ix + 1,
        u |-> ShrU64(st.u, 1)]

\* do { ... } while (u != 0) of xsum_round_to_small run for at most n
\* iterations; the first half is evaluated before the second half
RECURSIVE rts_chunks(_, _)
rts_chunks(st, n) ==
  IF n <= 0 THEN st
  ELSE IF n = 1 THEN rts_chunk_step(st)
  ELSE LET mid == rts_chunks(st, n \div 2)
       IN  IF Len(<<mid>>) = 1 THEN rts_chunks(mid, n - (n \div 2)) ELSE mid

\* the chunks in use of the block at index p, from its first chunk f on
rts_block_from(lacc, f) ==
  rts_chunks([lacc |-> lacc, ix |-> f.ix, u |-> f.u], TopBit64(f.u) + 1).lacc

\* One block of used flags of xsum_round_to_small: passed over if zero,
\* otherwise its chunks in use are added to the small accumulator.
rts_block_step(st) ==
  IF st.p >= XSUM_LCHUNKS \div 64 THEN st
  ELSE IF st.lacc.chunks_used[st.p] = Zero64 THEN [st EXCEPT !.p = @ + 1]
  ELSE [lacc |-> rts_block_from(st.lacc,
                                rts_first_chunk(st.p, st.lacc.chunks_used[st.p])),
        p |-> st.p + 1]

\* the loop over the blocks of xsum_round_to_small run for at most n blocks
RECURSIVE rts_blocks(_, _)
rts_blocks(st, n) ==
  IF n <= 0 THEN st
  ELSE IF n = 1 THEN rts_block_step(st)
  ELSE LET mid == rts_blocks(st, n \div 2)
       IN  IF Len(<<mid>>) = 1 THEN rts_blocks(mid, n - (n \div 2)) ELSE mid

\* xsum_round_to_small from the block at index p on
rts_from(lacc, p) == rts_blocks([lacc |-> lacc, p |-> p], (XSUM_LCHUNKS \div 64) - p).lacc

\* xsum_round_to_small: the large accumulator afterwards; the pointer returned
\* is to its sacc
xsum_round_to_small(lacc) == rts_from(lacc, rts_first_block(lacc.used_used))

\* xsum_round<xsum_large_accumulator> after its small accumulator has been
\* rounded, with result r
xsum_round_large_small(lacc, r) == [lacc |-> [lacc EXCEPT !.sacc = r.sacc], ret |-> r.ret]

\* xsum_round<xsum_large_accumulator> after xsum_round_to_small
xsum_round_large_condensed(l1) == xsum_round_large_small(l1, xsum_round_small(l1.sacc))

\* a round that reads the embedded small accumulator as it stands
xsum_round_large_stale(lacc) ==
  xsum_round_large_small(lacc, xsum_round_small(lacc.sacc))

\* xsum_round<xsum_large_accumulator>: the accumulator afterwards and the bit
\* pattern of the value returned
xsum_round_large(lacc) == xsum_round_large_condensed(xsum_round_to_small(lacc))

\* xsum_add(lacc, value) for a small accumulator value
xsum_add_large_sacc(lacc, value) ==
  [lacc EXCEPT !.sacc = xsum_add_small_sacc(@, value)]

\* xsum_add(lacc, value) once value has been rounded to its small accumulator
xsum_add_large_rounded(lacc, v1) ==
  [lacc |-> xsum_add_large_sacc(lacc, v1.sacc), value |-> v1]

\* xsum_add(lacc, value) for another large accumulator: both afterwards
xsum_add_large_lacc(lacc, value) ==
  xsum_add_large_rounded(lacc, xsum_round_to_small(value))

(***************************************************************************)
(* Methods of the classes xsum_small and xsum_large that differ from the   *)
(* functions above.                                                        *)
(***************************************************************************)
\* m = c - ((1 <= sacc->adds_until_propagate) ? c - 1 : sacc->adds_until_propagate)
class_small_vec_m(sacc, c) ==
  c - (IF 1 <= sacc.adds_until_propagate THEN c - 1 ELSE sacc.adds_until_propagate)

\* The while (c > 1) loop of xsum_small::add(v, n) and the final add of the
\* last value; xsum_small_add_vec_pass is the body of the loop after the carry
\* propagation, adding m values.
RECURSIVE xsum_small_add_vec_loop(_, _, _, _)
RECURSIVE xsum_small_add_vec_pass(_, _, _, _, _)
xsum_small_add_vec_pass(s1, vec, from, c, m) ==
  xsum_small_add_vec_loop(
    less_until_propagate(xsum_add_no_carry_vec(s1, vec, from, m + 1), m),
    vec, from + m, c - m)

xsum_small_add_vec_propagated(s1, vec, from, c) ==
  xsum_small_add_vec_pass(s1, vec, from, c, class_small_vec_m(s1, c))

xsum_small_add_vec_loop(sacc, vec, from, c) ==
  IF c > 1 THEN xsum_small_add_vec_propagated(propagate_if_needed(sacc), vec, from, c)
  ELSE xsum_add_small(sacc, vec[from])

\* xsum_small::add(v, n), vec a sequence of n values
xsum_small_add_vec(sacc, vec) ==
  IF Len(vec) = 0 THEN sacc ELSE xsum_small_add_vec_loop(sacc, vec, 1, Len(vec))

\* xsum_small::add_no_carry(value) for a small accumulator value
xsum_small_add_no_carry_sacc(sacc, value) ==
  IF value.Inf # Zero64
  THEN IF sacc.Inf = Zero64 THEN [sacc EXCEPT !.Inf = value.Inf]
       ELSE IF sacc.Inf # value.Inf THEN [sacc EXCEPT !.Inf = FltSubSelf(value.Inf)]
       ELSE sacc
  ELSE IF value.NaN # Zero64
  THEN IF LtU64(LowBits64(sacc.NaN, XSUM_MANTISSA_BITS),
                LowBits64(value.NaN, XSUM_MANTISSA_BITS))
       THEN [sacc EXCEPT !.NaN = value.NaN]
       ELSE sacc
  ELSE [sacc EXCEPT !.chunk = [i \in 0..(XSUM_SCHUNKS - 1) |->
                                 Add64(sacc.chunk[i], value.chunk[i])]]

\* xsum_small::add(value) and xsum_large::add(value) for a small accumulator
\* value, on the small accumulator of the receiver
xsum_small_add_sacc(sacc, value) ==
  less_until_propagate(xsum_small_add_no_carry_sacc(propagate_if_needed(sacc), value), 1)

\* One iteration of the do loop over the chunks of a block in
\* xsum_large::round_to_small(lacc): the counts and flags read are those of the
\* argument lacc, the chunk transferred by add_lchunk_to_small(ix) is that of
\* the receiver, st.this.
xsum_large_rts_chunk_step(lacc, st) ==
  IF st.u = Zero64 THEN st
  ELSE [this |-> IF lacc.count[st.ix] >= 0
                 THEN xsum_add_lchunk_to_small(st.this, st.ix)
                 ELSE st.this,
        ix |-> st.ix + 1,
        u |-> ShrU64(st.u, 1)]

\* the do loop over the chunks of a block run for at most n iterations
RECURSIVE xsum_large_rts_chunks(_, _, _)
xsum_large_rts_chunks(lacc, st, n) ==
  IF n <= 0 THEN st
  ELSE IF n = 1 THEN xsum_large_rts_chunk_step(lacc, st)
  ELSE LET mid == xsum_large_rts_chunks(lacc, st, n \div 2)
       IN  IF Len(<<mid>>) = 1 THEN xsum_large_rts_chunks(lacc, mid, n - (n \div 2))
           ELSE mid

\* the chunks in use of a block of the argument, from its first chunk f on
xsum_large_rts_block_from(lacc, this, f) ==
  xsum_large_rts_chunks(lacc, [this |-> this, ix |-> f.ix, u |-> f.u],
                        TopBit64(f.u) + 1).this

\* One block of used flags of the argument in xsum_large::round_to_small(lacc)
xsum_large_rts_block_step(lacc, st) ==
  IF st.p >= XSUM_LCHUNKS \div 64 THEN st
  ELSE IF lacc.chunks_used[st.p] = Zero64 THEN [st EXCEPT !.p = @ + 1]
  ELSE [this |-> xsum_large_rts_block_from(
                   lacc, st.this, rts_first_chunk(st.p, lacc.chunks_used[st.p])),
        p |-> st.p + 1]

\* the loop over the blocks run for at most n blocks
RECURSIVE xsum_large_rts_blocks(_, _, _)
xsum_large_rts_blocks(lacc, st, n) ==
  IF n <= 0 THEN st
  ELSE IF n = 1 THEN xsum_large_rts_block_step(lacc, st)
  ELSE LET mid == xsum_large_rts_blocks(lacc, st, n \div 2)
       IN  IF Len(<<mid>>) = 1 THEN xsum_large_rts_blocks(lacc, mid, n - (n \div 2))
           ELSE mid

\* xsum_large::round_to_small(lacc) from the block at index p on
xsum_large_rts_from(this, lacc, p) ==
  xsum_large_rts_blocks(lacc, [this |-> this, p |-> p], (XSUM_LCHUNKS \div 64) - p).this

\* xsum_large::round_to_small(lacc): the receiver afterwards; the pointer
\* returned is to the sacc of the argument, which is not written
xsum_large_round_to_small(this, lacc) ==
  xsum_large_rts_from(this, lacc, rts_first_block(lacc.used_used))

\* xsum_large::add(value) for a large accumulator value: the receiver afterwards
xsum_large_add_lacc(this, value) ==
  [xsum_large_round_to_small(this, value) EXCEPT
     !.sacc = xsum_small_add_sacc(@, value.sacc)]

(***************************************************************************)
(* The values the driver adds, and the record of what was added.           *)
(***************************************************************************)
PosZero  == W64(\h0000, 0, 0, 0)
NegZero  == W64(\h8000, 0, 0, 0)
One      == W64(\h3FF0, 0, 0, 0)            \* 1.0
NegOne   == W64(\hBFF0, 0, 0, 0)            \* -1.0
OnePlus  == W64(\h3FF0, 0, 0, 1)            \* 1 + 2^-52
HalfUlp  == W64(\h3CA0, 0, 0, 0)            \* 2^-53
Sdenorm  == W64(\h0000, 0, 0, 1)            \* 2^-1074, the smallest denormal
NegSdenorm == W64(\h8000, 0, 0, 1)
Lnormal  == W64(\h7FEF, \hFFFF, \hFFFF, \hFFFF)   \* the largest finite value
NegLnormal == W64(\hFFEF, \hFFFF, \hFFFF, \hFFFF)
AllOnes  == W64(\h3FFF, \hFFFF, \hFFFF, \hFFFF)   \* 2 - 2^-52
NegAllOnes == W64(\hBFFF, \hFFFF, \hFFFF, \hFFFF)
PosInf   == W64(\h7FF0, 0, 0, 0)
NegInf   == W64(\hFFF0, 0, 0, 0)
NaNLow   == W64(\h7FF8, 0, 0, 1)            \* a NaN with a small payload
NaNHigh  == W64(\hFFF8, 0, 0, 7)            \* a NaN with a larger payload, sign set

FiniteValues ==
  {PosZero, NegZero, One, NegOne, OnePlus, HalfUlp, Sdenorm, NegSdenorm,
   Lnormal, NegLnormal, AllOnes, NegAllOnes}
AllValues == FiniteValues \cup {PosInf, NegInf, NaNLow, NaNHigh}

IsFinite(v) == ExpField(v) # XSUM_EXP_MASK
IsNaN(v) == ~IsFinite(v) /\ LowBits64(v, XSUM_MANTISSA_BITS) # Zero64
IsInf(v) == ~IsFinite(v) /\ LowBits64(v, XSUM_MANTISSA_BITS) = Zero64

\* A record of terms: how many times each value has gone into an accumulator.
NoTerms == [v \in AllValues |-> 0]
PlusTerms(t, v, n) == [t EXCEPT ![v] = @ + n]
JoinTerms(t, u) == [v \in AllValues |-> t[v] + u[v]]
HasTerm(t, v) == t[v] > 0
FiniteTerms(t) == \A v \in AllValues : HasTerm(t, v) => IsFinite(v)

(***************************************************************************)
(* The reference result: the exact sum of a record of finite terms as an   *)
(* integer multiple of 2^-1074, rounded once to nearest, ties to even.     *)
(* The integer is held in limbs of LimbBits bits, limb 0 least significant;*)
(* every limb but the last is in 0..LimbMax and the last carries the sign. *)
(***************************************************************************)
\* An iteration run for at most n steps: Step is one step, and leaves a state
\* in which there is nothing left to do unchanged.  The first half of the
\* steps is evaluated before the second half.
RECURSIVE Iterate(_, _, _)
Iterate(Step(_), st, n) ==
  IF n <= 0 THEN st
  ELSE IF n = 1 THEN Step(st)
  ELSE LET mid == Iterate(Step, st, n \div 2)
       IN  IF Len(<<mid>>) = 1 THEN Iterate(Step, mid, n - (n \div 2)) ELSE mid

ExactLimbs == ((2^XSUM_EXP_BITS + XSUM_MANTISSA_BITS) \div LimbBits) + 3

\* the significand of a finite value and the power of two that scales it
Significand(v) ==
  IF ExpField(v) = 0 THEN LowBits64(v, XSUM_MANTISSA_BITS)
  ELSE SetBit64(LowBits64(v, XSUM_MANTISSA_BITS), XSUM_MANTISSA_BITS)
Scale(v) == IF ExpField(v) = 0 THEN 0 ELSE ExpField(v) - 1

\* limb j of m * 2^s, m a 64-bit word
ShiftedLimb(m, s, j) ==
  LET q == s \div LimbBits
      r == s % LimbBits
      lo(i) == IF i \in 1..4 THEN (m[i] * 2^r) % LimbBase ELSE 0
      hi(i) == IF i \in 1..4 THEN m[i] \div 2^(LimbBits - r) ELSE 0
  IN  lo(j - q + 1) + hi(j - q)

\* carries moved up so that every limb but the last is in 0..LimbMax
ExactNormalize(x) ==
  LET step(st) ==
        IF st.j >= ExactLimbs - 1 THEN st
        ELSE [x |-> [st.x EXCEPT ![st.j] = @ % LimbBase,
                                 ![st.j + 1] = @ + (st.x[st.j] \div LimbBase)],
              j |-> st.j + 1]
  IN  Iterate(step, [x |-> x, j |-> 0], ExactLimbs - 1).x

ExactZero == [j \in 0..(ExactLimbs - 1) |-> 0]

\* x + n * v for a finite value v
ExactPlus(x, v, n) ==
  LET c == IF IsNeg64(v) THEN -n ELSE n
  IN  ExactNormalize([j \in 0..(ExactLimbs - 1) |->
                        x[j] + c * ShiftedLimb(Significand(v), Scale(v), j)])

\* the exact sum of the finite terms of t, one value after another
ExactSum(t) ==
  LET step(st) ==
        IF st.S = {} THEN st
        ELSE LET v == CHOOSE w \in st.S : TRUE
             IN  [x |-> ExactPlus(st.x, v, t[v]), S |-> st.S \ {v}]
  IN  Iterate(step,
              [x |-> ExactZero, S |-> {v \in AllValues : t[v] > 0 /\ IsFinite(v)}],
              Cardinality(AllValues)).x

\* the binary64 nearest to the non-negative integer x times 2^-1074, with
\* the given sign word; ties go to the even significand, and a result beyond
\* the largest finite value is the infinity
RoundMagnitude(x, sign) ==
  LET limb(j) == IF j \in 0..(ExactLimbs - 1) THEN x[j] ELSE 0
      bit(k) == (limb(k \div LimbBits) \div 2^(k % LimbBits)) % 2
      top == CHOOSE j \in 0..(ExactLimbs - 1) :
               x[j] # 0 /\ \A k \in (j + 1)..(ExactLimbs - 1) : x[k] = 0
      t == LimbBits * top + TopBit16(x[top])
      shift == t - XSUM_MANTISSA_BITS
      word(s) == [i \in 1..4 |->
                    LET a == (s \div LimbBits) + i - 1
                        r == s % LimbBits
                    IN  (limb(a) \div 2^r) + (limb(a + 1) % 2^r) * 2^(LimbBits - r)]
      q == LowBits64(word(shift), XSUM_MANTISSA_BITS + 1)
      half == bit(shift - 1) = 1
      below == \E k \in 0..(shift - 2) : bit(k) = 1
      up == half /\ (below \/ Bit64(q, 0) = 1)
      q1 == IF up THEN Add64(q, One64) ELSE q
      over == Bit64(q1, XSUM_MANTISSA_BITS + 1) = 1
      e == IF over THEN shift + 2 ELSE shift + 1
  IN  IF \A j \in 0..(ExactLimbs - 1) : x[j] = 0 THEN PosZero
      ELSE IF t <= XSUM_MANTISSA_BITS THEN Add64(sign, word(0))
      ELSE IF e >= XSUM_EXP_MASK THEN Add64(sign, PosInf)
      ELSE Add64(sign, Add64(Shl64(FromNat(e), XSUM_MANTISSA_BITS),
                             LowBits64(q1, XSUM_MANTISSA_BITS)))

\* the correctly rounded sum of the finite terms of t
CorrectlyRounded(t) ==
  LET x == ExactSum(t)
      negative == x[ExactLimbs - 1] < 0
  IN  IF negative
      THEN RoundMagnitude(ExactNormalize([j \in 0..(ExactLimbs - 1) |-> -x[j]]),
                          XSUM_SIGN_MASK)
      ELSE RoundMagnitude(x, Zero64)

(***************************************************************************)
(* The state: the accumulators the driver works on (sacc1, sacc2 and       *)
(* lacc1, lacc2 of the example), the terms that have gone into each, the   *)
(* number of operations issued so far, how many of them were roundings and *)
(* how many were merges, and the last operation with the value it returned.*)
(***************************************************************************)
VARIABLES sacc, lacc, sterm, lterm, steps, rounds, merges, op

vars == <<sacc, lacc, sterm, lterm, steps, rounds, merges, op>>

Acc == {1, 2}

\* what the uninitialised chunk array of a new large accumulator may hold
Garbage == {Zero64, W64(\hDEAD, \hBEEF, \h0BAD, \hF00D)}

Did(name, kind, k, n, ret, again) ==
  [name |-> name, kind |-> kind, k |-> k, n |-> n, ret |-> ret, again |-> again]

Init ==
  /\ sacc = [k \in Acc |-> xsum_small_accumulator]
  /\ \E g \in Garbage : lacc = [k \in Acc |-> xsum_large_accumulator(g)]
  /\ sterm = [k \in Acc |-> NoTerms]
  /\ lterm = [k \in Acc |-> NoTerms]
  /\ steps = 0
  /\ rounds = 0
  /\ merges = 0
  /\ op = Did("init", "none", 0, 0, Zero64, FALSE)

\* for (j = 0; j < n; ++j) xsum_add(&sacc, v); the first half of the
\* iterations is evaluated before the second half
RECURSIVE xsum_add_small_rep(_, _, _)
xsum_add_small_rep(s, v, n) ==
  IF n <= 0 THEN s
  ELSE IF n = 1 THEN xsum_add_small(s, v)
  ELSE LET mid == xsum_add_small_rep(s, v, n \div 2)
       IN  IF Len(<<mid>>) = 1 THEN xsum_add_small_rep(mid, v, n - (n \div 2)) ELSE mid

\* for (j = 0; j < n; ++j) xsum_add(&lacc, v)
RECURSIVE xsum_add_large_rep(_, _, _)
xsum_add_large_rep(l, v, n) ==
  IF n <= 0 THEN l
  ELSE IF n = 1 THEN xsum_add_large(l, v)
  ELSE LET mid == xsum_add_large_rep(l, v, n \div 2)
       IN  IF Len(<<mid>>) = 1 THEN xsum_add_large_rep(mid, v, n - (n \div 2)) ELSE mid

\* xsum_add(&sacc, v), n times over
AddSmall(k, v, n) ==
  /\ sacc' = [sacc EXCEPT ![k] = xsum_add_small_rep(@, v, n)]
  /\ sterm' = [sterm EXCEPT ![k] = PlusTerms(@, v, n)]
  /\ steps' = steps + 1
  /\ op' = Did("add", "small", k, n, Zero64, FALSE)
  /\ UNCHANGED <<lacc, lterm, rounds, merges>>

\* xsum_add(&lacc, v), n times over
AddLarge(k, v, n) ==
  /\ lacc' = [lacc EXCEPT ![k] = xsum_add_large_rep(@, v, n)]
  /\ lterm' = [lterm EXCEPT ![k] = PlusTerms(@, v, n)]
  /\ steps' = steps + 1
  /\ op' = Did("add", "large", k, n, Zero64, FALSE)
  /\ UNCHANGED <<sacc, sterm, rounds, merges>>

\* xsum_round(&sacc)
RoundSmall(k) ==
  LET r == xsum_round_small(sacc[k])
  IN  /\ sacc' = [sacc EXCEPT ![k] = r.sacc]
      /\ op' = Did("round", "small", k, 0, r.ret,
                   op.name = "round" /\ op.kind = "small" /\ op.k = k)
      /\ steps' = steps + 1
      /\ rounds' = rounds + 1
      /\ UNCHANGED <<lacc, sterm, lterm, merges>>

\* xsum_round(&lacc)
RoundLarge(k) ==
  LET r == xsum_round_large(lacc[k])
  IN  /\ lacc' = [lacc EXCEPT ![k] = r.lacc]
      /\ op' = Did("round", "large", k, 0, r.ret,
                   op.name = "round" /\ op.kind = "large" /\ op.k = k)
      /\ steps' = steps + 1
      /\ rounds' = rounds + 1
      /\ UNCHANGED <<sacc, sterm, lterm, merges>>

\* xsum_round_to_small(&lacc)
RoundToSmall(k) ==
  /\ lacc' = [lacc EXCEPT ![k] = xsum_round_to_small(@)]
  /\ op' = Did("round_to_small", "large", k, 0, Zero64, FALSE)
  /\ steps' = steps + 1
  /\ rounds' = rounds + 1
  /\ UNCHANGED <<sacc, sterm, lterm, merges>>

\* the terms that went into the accumulator the last operation worked on
TermsOf(o) == IF o.kind = "small" THEN sterm[o.k] ELSE lterm[o.k]

\* the accumulator of this kind and index is as the last operation left it (or
\* as constructed): every value an accumulator takes is seen in such a state
Fresh(kind, k) == op.name = "init" \/ (op.kind = kind /\ op.k = k)

(***************************************************************************)
(* Summation: values added one at a time, or one value many times over, to *)
(* one small and one large accumulator, and the results rounded.           *)
(***************************************************************************)
MaxSteps == 3

SumValues == {One, NegSdenorm, NegAllOnes, NegLnormal, PosInf, NegInf}
RepValues == {AllOnes, NegLnormal}

SumNext ==
  \/ \E v \in SumValues : steps < MaxSteps /\ AddSmall(1, v, 1)
  \/ \E v \in SumValues : steps < MaxSteps /\ AddLarge(1, v, 1)
  \/ \E v \in RepValues : steps = 0 /\ AddSmall(1, v, XSUM_SMALL_CARRY_TERMS)
  \/ \E v \in RepValues : steps = 0 /\ AddLarge(1, v, 2^XSUM_LCOUNT_BITS)
  \/ steps < MaxSteps /\ RoundSmall(1)
  \/ steps < MaxSteps /\ RoundLarge(1)
  \/ steps < MaxSteps /\ RoundToSmall(1)

SpecSum == Init /\ [][SumNext]_vars

\* C1: after values, all finite, have been added one at a time to a new small
\* or large accumulator, round() returns the exact sum of the values rounded
\* once to nearest, ties to even.
C1_RoundIsCorrectlyRounded ==
  (op.name = "round" /\ rounds = 1 /\ FiniteTerms(TermsOf(op)))
    => op.ret = CorrectlyRounded(TermsOf(op))

\* C8: for every large accumulator that can arise, round_to_small followed by
\* round() of the small accumulator it returns gives the bit pattern that
\* round() gives on a copy of the large accumulator.
C8_RoundToSmallThenRound ==
  \A k \in Acc : Fresh("large", k) =>
    xsum_round_small(xsum_round_to_small(lacc[k]).sacc).ret
      = xsum_round_large(lacc[k]).ret

\* a large accumulator holding two different finite terms has been condensed by
\* round_to_small, and round() of its small accumulator is their rounded sum
C8_Witness ==
  /\ op.name = "round_to_small"
  /\ HasTerm(lterm[1], One) /\ HasTerm(lterm[1], NegLnormal)
  /\ xsum_round_small(lacc[1].sacc).ret = CorrectlyRounded(lterm[1])
  /\ xsum_round_small(lacc[1].sacc).ret # Zero64

\* C9: for every small and every large accumulator that can arise, round()
\* called twice in a row returns the same bit pattern both times.
C9_RoundIdempotent ==
  /\ \A k \in Acc : Fresh("small", k) =>
       LET r == xsum_round_small(sacc[k])
       IN  xsum_round_small(r.sacc).ret = r.ret
  /\ \A k \in Acc : Fresh("large", k) =>
       LET r == xsum_round_large(lacc[k])
       IN  xsum_round_large(r.lacc).ret = r.ret

\* round() has just been called a second time in a row on a large accumulator
\* that holds terms, and has returned a value that is not zero
C9_Witness ==
  /\ op.name = "round" /\ op.kind = "large" /\ op.again
  /\ HasTerm(lterm[1], NegAllOnes)
  /\ op.ret # Zero64

\* C10: with no NaN among the values added, round() returns a NaN if
\* infinities of both signs were added, and the infinity added if infinities
\* of one sign only were added, whatever finite values were added.
C10_InfRule ==
  op.name = "round" =>
    LET t == TermsOf(op)
    IN  (\A v \in AllValues : HasTerm(t, v) => ~IsNaN(v)) =>
          /\ (HasTerm(t, PosInf) /\ HasTerm(t, NegInf)) => IsNaN(op.ret)
          /\ (HasTerm(t, PosInf) /\ ~HasTerm(t, NegInf)) => op.ret = PosInf
          /\ (HasTerm(t, NegInf) /\ ~HasTerm(t, PosInf)) => op.ret = NegInf

\* the largest negative value was added 4096 times over, which alone
\* overflows to -Inf, then +Inf, and round() has returned +Inf
C10_Witness ==
  /\ op.name = "round" /\ op.kind = "large"
  /\ lterm[1][NegLnormal] = 2^XSUM_LCOUNT_BITS
  /\ HasTerm(lterm[1], PosInf)
  /\ op.ret = PosInf

(***************************************************************************)
(* Vectors: a vector of values added by one call, to an accumulator that   *)
(* single values, one value many times over, and roundings have prepared.  *)
(***************************************************************************)
MaxVecLen == 4
MaxVecSteps == 3

VecValues == {One, NegAllOnes, PosInf}

RECURSIVE SeqsOf(_, _)
SeqsOf(S, n) ==
  IF n = 0 THEN {<<>>}
  ELSE {Append(q, v) : q \in SeqsOf(S, n - 1), v \in S}

\* the vectors of 1 to MaxVecLen values, and the vectors of one value more
\* drawn from two values, long enough for the loop over pairs to run twice
Vecs ==
  (UNION {SeqsOf(VecValues, n) : n \in 1..MaxVecLen})
    \cup SeqsOf({One, NegAllOnes}, MaxVecLen + 1)

RECURSIVE TermsOfVec(_, _)
TermsOfVec(t, vec) ==
  IF vec = <<>> THEN t ELSE TermsOfVec(PlusTerms(t, Head(vec), 1), Tail(vec))

\* for (j = 0; j < n; ++j) xsum_add(&sacc, vec[j])
RECURSIVE xsum_add_small_each(_, _)
xsum_add_small_each(s, vec) ==
  IF vec = <<>> THEN s
  ELSE xsum_add_small_each(xsum_add_small(s, Head(vec)), Tail(vec))

\* for (j = 0; j < n; ++j) xsum_add(&lacc, vec[j])
RECURSIVE xsum_add_large_each(_, _)
xsum_add_large_each(l, vec) ==
  IF vec = <<>> THEN l
  ELSE xsum_add_large_each(xsum_add_large(l, Head(vec)), Tail(vec))

\* xsum_add(&sacc, vec, n)
AddValuesSmall(k, vec) ==
  /\ sacc' = [sacc EXCEPT ![k] = xsum_add_small_vec(@, vec)]
  /\ sterm' = [sterm EXCEPT ![k] = TermsOfVec(@, vec)]
  /\ steps' = steps + Len(vec)
  /\ op' = Did("add_values", "small", k, Len(vec), Zero64, FALSE)
  /\ UNCHANGED <<lacc, lterm, rounds, merges>>

\* xsum_small object: add(vec, n)
ClassAddValuesSmall(k, vec) ==
  /\ sacc' = [sacc EXCEPT ![k] = xsum_small_add_vec(@, vec)]
  /\ sterm' = [sterm EXCEPT ![k] = TermsOfVec(@, vec)]
  /\ steps' = steps + Len(vec)
  /\ op' = Did("class_add_values", "small", k, Len(vec), Zero64, FALSE)
  /\ UNCHANGED <<lacc, lterm, rounds, merges>>

\* xsum_add(&lacc, vec, n)
AddValuesLarge(k, vec) ==
  /\ lacc' = [lacc EXCEPT ![k] = xsum_add_large_vec(@, vec)]
  /\ lterm' = [lterm EXCEPT ![k] = TermsOfVec(@, vec)]
  /\ steps' = steps + Len(vec)
  /\ op' = Did("add_values", "large", k, Len(vec), Zero64, FALSE)
  /\ UNCHANGED <<sacc, sterm, rounds, merges>>

\* vectors of two values of one chunk of the large accumulator (1.0 and the
\* next value above it) and one value of another chunk, in every order
PermVecs ==
  SeqsOf({One, OnePlus, NegAllOnes}, 2) \cup SeqsOf({One, OnePlus, NegAllOnes}, 3)

VecNext ==
  \/ \E v \in VecValues : steps < MaxVecSteps /\ AddSmall(1, v, 1)
  \/ \E v \in VecValues : steps < MaxVecSteps /\ AddLarge(1, v, 1)
  \/ steps = 0 /\ AddSmall(1, One, XSUM_SMALL_CARRY_TERMS - 1)
  \/ steps = 0 /\ AddLarge(1, One, 2^XSUM_LCOUNT_BITS - 1)
  \/ \E vec \in Vecs : steps + Len(vec) <= MaxVecSteps /\ AddValuesSmall(1, vec)
  \/ \E vec \in Vecs : steps + Len(vec) <= MaxVecSteps /\ ClassAddValuesSmall(1, vec)
  \/ \E vec \in Vecs : steps + Len(vec) <= MaxVecSteps /\ AddValuesLarge(1, vec)
  \/ \E vec \in PermVecs : steps = 1 /\ op.kind = "large" /\ op.n > 1 /\ AddValuesLarge(1, vec)
  \/ steps < MaxVecSteps /\ RoundSmall(1)
  \/ steps < MaxVecSteps /\ RoundLarge(1)

SpecVec == Init /\ [][VecNext]_vars

\* C3: for every small and every large accumulator that can arise (here, one
\* reached while there are values left to add) and every vector of n >= 1
\* values, add_values leaves the accumulator exactly as n calls of add_value on
\* the same values in the same order leave it, so that round() and every later
\* operation return the same results.
C3_AddValuesIsAddValue ==
  steps < MaxVecSteps =>
    /\ \A k \in Acc : Fresh("small", k) =>
         \A vec \in Vecs :
           /\ xsum_add_small_vec(sacc[k], vec) = xsum_add_small_each(sacc[k], vec)
           /\ xsum_small_add_vec(sacc[k], vec) = xsum_add_small_each(sacc[k], vec)
    /\ \A k \in Acc : Fresh("large", k) =>
         \A vec \in Vecs :
           xsum_add_large_vec(lacc[k], vec) = xsum_add_large_each(lacc[k], vec)

\* a vector of three values, two of them in the same chunk, has been added by
\* one call to a new large accumulator whose chunks were not initialised: the
\* updates made to both chunks of the first pair had to be backed out
C3_Witness ==
  /\ op.name = "add_values" /\ op.kind = "large" /\ op.n = 3
  /\ lterm[1][One] = 2 /\ lterm[1][NegAllOnes] = 1
  /\ lacc[1].chunk[0] # Zero64
  /\ lacc[1].count[ChunkIndex(One)] = 2^XSUM_LCOUNT_BITS - 2

(***************************************************************************)
(* Merging: values added to two small and two large accumulators, and the  *)
(* accumulators added to each other.                                       *)
(***************************************************************************)
MaxMergeSteps == 3

MergeValues == {NegAllOnes, NegSdenorm, PosInf, NaNLow}

\* xsum_add(&sacc[a], &sacc[b])
MergeSmall(a, b) ==
  /\ sacc' = [sacc EXCEPT ![a] = xsum_add_small_sacc(@, sacc[b])]
  /\ sterm' = [sterm EXCEPT ![a] = JoinTerms(@, sterm[b])]
  /\ steps' = steps + 1
  /\ merges' = merges + 1
  /\ op' = Did("merge", "small", a, 0, Zero64, FALSE)
  /\ UNCHANGED <<lacc, lterm, rounds>>

\* xsum_small(sacc[a]).add(&sacc[b])
ClassMergeSmall(a, b) ==
  /\ sacc' = [sacc EXCEPT ![a] = xsum_small_add_sacc(@, sacc[b])]
  /\ sterm' = [sterm EXCEPT ![a] = JoinTerms(@, sterm[b])]
  /\ steps' = steps + 1
  /\ merges' = merges + 1
  /\ op' = Did("class_merge", "small", a, 0, Zero64, FALSE)
  /\ UNCHANGED <<lacc, lterm, rounds>>

\* xsum_add(&lacc[a], &sacc[b])
MergeLargeSmall(a, b) ==
  /\ lacc' = [lacc EXCEPT ![a] = xsum_add_large_sacc(@, sacc[b])]
  /\ lterm' = [lterm EXCEPT ![a] = JoinTerms(@, sterm[b])]
  /\ steps' = steps + 1
  /\ merges' = merges + 1
  /\ op' = Did("merge_small", "large", a, 0, Zero64, FALSE)
  /\ UNCHANGED <<sacc, sterm, rounds>>

\* xsum_add(&lacc[a], &lacc[b]): lacc[b] is rounded to its small accumulator
MergeLarge(a, b) ==
  LET r == xsum_add_large_lacc(lacc[a], lacc[b])
  IN  /\ lacc' = [lacc EXCEPT ![a] = r.lacc, ![b] = r.value]
      /\ lterm' = [lterm EXCEPT ![a] = JoinTerms(@, lterm[b])]
      /\ steps' = steps + 1
      /\ merges' = merges + 1
      /\ op' = Did("merge", "large", a, 0, Zero64, FALSE)
      /\ UNCHANGED <<sacc, sterm, rounds>>

\* xsum_large(lacc[a]).add(&lacc[b])
ClassMergeLarge(a, b) ==
  /\ lacc' = [lacc EXCEPT ![a] = xsum_large_add_lacc(@, lacc[b])]
  /\ lterm' = [lterm EXCEPT ![a] = JoinTerms(@, lterm[b])]
  /\ steps' = steps + 1
  /\ merges' = merges + 1
  /\ op' = Did("class_merge", "large", a, 0, Zero64, FALSE)
  /\ UNCHANGED <<sacc, sterm, rounds>>

MergeNext ==
  \/ \E k \in Acc, v \in MergeValues : steps < MaxMergeSteps /\ AddSmall(k, v, 1)
  \/ \E k \in Acc, v \in MergeValues : steps < MaxMergeSteps /\ AddLarge(k, v, 1)
  \/ \E k \in Acc : /\ steps = 0 \/ (steps < MaxMergeSteps /\ op.n > 1)
                    /\ sterm[k] = NoTerms
                    /\ AddSmall(k, AllOnes, XSUM_SMALL_CARRY_TERMS - 1)
  \/ \E a, b \in Acc : steps < MaxMergeSteps /\ a # b /\ MergeSmall(a, b)
  \/ \E a, b \in Acc : steps < MaxMergeSteps /\ a # b /\ ClassMergeSmall(a, b)
  \/ \E a, b \in Acc : steps < MaxMergeSteps /\ MergeLargeSmall(a, b)
  \/ \E a, b \in Acc : steps < MaxMergeSteps /\ a # b /\ MergeLarge(a, b)
  \/ \E a, b \in Acc : steps < MaxMergeSteps /\ a # b /\ ClassMergeLarge(a, b)
  \/ \E k \in Acc : steps < MaxMergeSteps /\ RoundSmall(k)
  \/ \E k \in Acc : steps < MaxMergeSteps /\ RoundLarge(k)

SpecMerge == Init /\ [][MergeNext]_vars

\* every value of the record t added to a new small accumulator, one
\* xsum_add(&sacc, v) at a time
RECURSIVE xsum_add_small_terms(_, _, _)
xsum_add_small_terms(s, t, vs) ==
  IF vs = {} THEN s
  ELSE LET v == CHOOSE x \in vs : TRUE
       IN  xsum_add_small_terms(xsum_add_small_rep(s, v, t[v]), t, vs \ {v})

SingleSmall(t) == xsum_add_small_terms(xsum_small_accumulator, t, AllValues)

HasNaN(t) == \E v \in AllValues : HasTerm(t, v) /\ IsNaN(v)

\* C2: when finite values have been split over two small accumulators and
\* one has been merged into the other with xsum_add(&A, &B), rounding A gives
\* the same bits as rounding a single accumulator to which all the values
\* were added.
C2_SplitMergeIsSingle ==
  (/\ op.name = "merge" /\ op.kind = "small"
   /\ merges = 1 /\ rounds = 0
   /\ FiniteTerms(sterm[op.k]))
  => xsum_round_small(sacc[op.k]).ret
       = xsum_round_small(SingleSmall(sterm[op.k])).ret

\* C4: after xsum_add(&A, &B) on two large accumulators to which finite
\* values were added (and which may have been rounded), rounding A gives the
\* correctly rounded exact sum of the values added to A and to B.
C4_LargeMergeIsExact ==
  (/\ op.name = "merge" /\ op.kind = "large"
   /\ merges = 1
   /\ FiniteTerms(lterm[op.k]))
  => xsum_round_large(lacc[op.k]).ret = CorrectlyRounded(lterm[op.k])

\* C5: after the method A.add(&B) of xsum_large on two large accumulators to
\* which finite values were added, rounding A gives the correctly rounded
\* exact sum of the values added to A and to B.
C5_ClassLargeMergeIsExact ==
  (/\ op.name = "class_merge" /\ op.kind = "large"
   /\ merges = 1
   /\ FiniteTerms(lterm[op.k]))
  => xsum_round_large(lacc[op.k]).ret = CorrectlyRounded(lterm[op.k])

\* C6: merging two small accumulators with xsum_add gives the same rounded
\* result whichever of the two is the left operand, for finite contents and for
\* every combination of recorded Inf and NaN.
C6_MergeOrderIndependent ==
  [][\A a, b \in Acc :
       (a # b /\ merges = 0 /\ MergeSmall(a, b))
       => xsum_round_small(sacc'[a]).ret
            = xsum_round_small(xsum_add_small_sacc(sacc[b], sacc[a])).ret]_vars

\* C7: when a NaN was added to either operand before a merge of two small
\* accumulators, rounding the merged accumulator returns a NaN, whatever
\* infinities were recorded.
C7_NaNPrecedesInf ==
  (/\ op.name \in {"merge", "class_merge"} /\ op.kind = "small"
   /\ merges = 1
   /\ HasNaN(sterm[op.k]))
  => IsNaN(xsum_round_small(sacc[op.k]).ret)

\* C12: for finite values added, round returns +Inf or -Inf exactly when the
\* correctly rounded exact sum is beyond the largest finite value, with the
\* sign of the exact sum; partial sums beyond the finite range do not count.
C12_InfIffOverflow ==
  (op.name = "round" /\ FiniteTerms(TermsOf(op)))
     => /\ op.ret = PosInf <=> CorrectlyRounded(TermsOf(op)) = PosInf
        /\ op.ret = NegInf <=> CorrectlyRounded(TermsOf(op)) = NegInf

\* n times the word a, modulo 2^64
RECURSIVE Times64(_, _)
Times64(a, n) ==
  IF n = 0 THEN Zero64
  ELSE IF n % 2 = 1 THEN Add64(Times64(Add64(a, a), n \div 2), a)
  ELSE Times64(Add64(a, a), n \div 2)

\* the finite values of large chunk ix, how many of them the terms t hold,
\* and the sum modulo 2^64 of their bit patterns
BinValues(ix) == {v \in FiniteValues : ChunkIndex(v) = ix}

RECURSIVE BinAdds(_, _)
BinAdds(t, S) ==
  IF S = {} THEN 0
  ELSE LET v == CHOOSE w \in S : TRUE IN t[v] + BinAdds(t, S \ {v})

RECURSIVE BinChunk(_, _)
BinChunk(t, S) ==
  IF S = {} THEN Zero64
  ELSE LET v == CHOOSE w \in S : TRUE IN Add64(Times64(v, t[v]), BinChunk(t, S \ {v}))

\* while nothing has been rounded, and the chunk of v has not been refilled,
\* the chunk holds the sum of all the values of the chunk added so far and its
\* count is 4096 less their number; a chunk without values has count -1
BinState ==
  rounds = 0 =>
    \A v \in FiniteValues :
      LET ix == ChunkIndex(v)
          n == BinAdds(lterm[1], BinValues(ix))
      IN  /\ n = 0 => lacc[1].count[ix] = -1
          /\ (1 <= n /\ n <= 2^XSUM_LCOUNT_BITS) =>
               /\ lacc[1].count[ix] = 2^XSUM_LCOUNT_BITS - n
               /\ lacc[1].chunk[ix] = BinChunk(lterm[1], BinValues(ix))

\* one value added: a chunk with room takes the bit pattern and counts it; a
\* chunk not yet used or with count 0 is reset and then takes and counts it;
\* an Inf or NaN touches no chunk; no other chunk or count changes
BinStep(v) ==
  LET ix == ChunkIndex(v)
      c == lacc[1].count[ix]
  IN  IF ~IsFinite(v)
      THEN lacc'[1].count = lacc[1].count /\ lacc'[1].chunk = lacc[1].chunk
      ELSE /\ lacc'[1].count =
                [lacc[1].count EXCEPT ![ix] = IF c > 0 THEN c - 1 ELSE 2^XSUM_LCOUNT_BITS - 1]
           /\ lacc'[1].chunk =
                [lacc[1].chunk EXCEPT ![ix] = IF c > 0 THEN Add64(@, v) ELSE v]

\* C17: in every reachable state of a large accumulator, each chunk ix with
\* count[ix] >= 0 holds the sum modulo 2^64 of the bit patterns added to it
\* since its last reset, and count[ix] is 4096 less the number of these
\* values; the value that causes a first use or a transfer of the chunk is
\* counted once, after the reset.
C17_LargeBinInvariant ==
  /\ []BinState
  /\ [][\A v \in SumValues : AddLarge(1, v, 1) => BinStep(v)]_vars

\* a value has been added to a chunk that held 4096 values: the chunk has been
\* transferred and holds this value alone, counted once
C17_Witness ==
  /\ op.name = "add" /\ op.kind = "large" /\ op.n = 1
  /\ lterm[1][NegLnormal] = 2^XSUM_LCOUNT_BITS + 1
  /\ lacc[1].count[ChunkIndex(NegLnormal)] = 2^XSUM_LCOUNT_BITS - 1
  /\ lacc[1].chunk[ChunkIndex(NegLnormal)] = NegLnormal

\* The value of a small accumulator is the sum of chunk[i] * 2^(32 i), in
\* units of 2^-1075.  SaccLimb is the part of limb j (16 bits each) the chunks
\* give before any carry: the four limbs of a chunk, read as unsigned, at limb
\* 2 i, less 2^64 for a negative chunk.
SaccLimbs == 2 * XSUM_SCHUNKS + 4

SaccLimb(s, j) ==
  LET i == j \div 2
      r == j % 2
  IN  (IF i <= XSUM_SCHUNKS - 1 THEN s.chunk[i][r + 1] ELSE 0)
      + (IF 1 <= i /\ i <= XSUM_SCHUNKS THEN s.chunk[i - 1][r + 3] ELSE 0)
      - (IF r = 0 /\ 2 <= i /\ i <= XSUM_SCHUNKS + 1 /\ IsNeg64(s.chunk[i - 2]) THEN 1 ELSE 0)

\* limb j of the exact sum of the values of S, each taken t[v] times, in units
\* of 2^-1075
RECURSIVE TermsLimb(_, _, _)
TermsLimb(t, S, j) ==
  IF S = {} THEN 0
  ELSE LET v == CHOOSE w \in S : TRUE
           c == IF IsNeg64(v) THEN -t[v] ELSE t[v]
       IN  c * ShiftedLimb(Significand(v), Scale(v) + 1, j) + TermsLimb(t, S \ {v}, j)

\* the carry out of the limbs d[lo] .. d[hi - 1] when each of them, with the
\* carry coming in, is zero modulo 2^16; NoCarry when one of them is not
NoCarry == 2^30

RECURSIVE LimbsCarry(_, _, _, _)
LimbsCarry(d, lo, hi, carry) ==
  IF carry = NoCarry THEN NoCarry
  ELSE IF hi - lo = 1
  THEN IF (d[lo] + carry) % LimbBase = 0 THEN (d[lo] + carry) \div LimbBase ELSE NoCarry
  ELSE LET mid == lo + ((hi - lo) \div 2)
       IN  LimbsCarry(d, mid, hi, LimbsCarry(d, lo, mid, carry))

\* the value of s2 is the value of s1 plus the exact sum of the values of S,
\* each taken t[v] times
SaccIsSaccPlus(s2, s1, t, S) ==
  LimbsCarry([j \in 0..(SaccLimbs - 1) |->
                SaccLimb(s2, j) - SaccLimb(s1, j) - TermsLimb(t, S, j)], 0, SaccLimbs, 0) = 0

\* C18: xsum_add_lchunk_to_small on a chunk ix with count[ix] >= 0 adds to the
\* small accumulator the exact sum of the finite values held in the chunk
\* (nothing for an empty chunk with count 4096), takes one from
\* adds_until_propagate (after the carry propagation a counter of zero asks
\* for), and leaves chunk[ix] = 0, count[ix] = 4096, bit ix of chunks_used and
\* bit ix >> 6 of used_used set.
C18_CondenseIsExact ==
  \A v \in FiniteValues :
    LET ix == ChunkIndex(v)
        c == lacc[1].count[ix]
        r == xsum_add_lchunk_to_small(lacc[1], ix)
    IN  c >= 0 =>
          /\ r.chunk = [lacc[1].chunk EXCEPT ![ix] = Zero64]
          /\ r.count = [lacc[1].count EXCEPT ![ix] = 2^XSUM_LCOUNT_BITS]
          /\ Bit64(r.chunks_used[ix \div 64], ix % 64) = 1
          /\ Bit64(r.used_used, ix \div 64) = 1
          /\ r.sacc.adds_until_propagate
               = propagate_if_needed(lacc[1].sacc).adds_until_propagate - 1
          /\ r.sacc.Inf = lacc[1].sacc.Inf /\ r.sacc.NaN = lacc[1].sacc.NaN
          /\ c = 2^XSUM_LCOUNT_BITS => SaccIsSaccPlus(r.sacc, lacc[1].sacc, NoTerms, {})
          /\ (rounds = 0 /\ BinAdds(lterm[1], BinValues(ix)) <= 2^XSUM_LCOUNT_BITS)
               => SaccIsSaccPlus(r.sacc, lacc[1].sacc, lterm[1], BinValues(ix))

\* xsum_round_to_small has transferred the chunks of 1.0 and of the largest
\* negative normal: both are empty with count 4096 and marked as used, and the
\* small accumulator has two additions fewer to go
C18_Witness ==
  /\ op.name = "round_to_small"
  /\ lterm[1][One] = 1 /\ lterm[1][NegLnormal] = 1
  /\ lacc[1].chunk[ChunkIndex(One)] = Zero64
  /\ lacc[1].count[ChunkIndex(One)] = 2^XSUM_LCOUNT_BITS
  /\ lacc[1].count[ChunkIndex(NegLnormal)] = 2^XSUM_LCOUNT_BITS
  /\ Bit64(lacc[1].used_used, ChunkIndex(NegLnormal) \div 64) = 1
  /\ lacc[1].sacc.adds_until_propagate = XSUM_SMALL_CARRY_TERMS - 2

\* the two vectors hold the same values the same number of times
SameValues(p, q) == TermsOfVec(NoTerms, p) = TermsOfVec(NoTerms, q)

\* C16 as stated: after the large vector add, from any starting state, the
\* chunk and count arrays are determined by the multiset of the values alone:
\* two vectors that are permutations of each other give identical chunk and
\* count arrays.
C16_ChunkAndCountByMultiset ==
  steps < MaxVecSteps => \A p, q \in PermVecs :
    SameValues(p, q) =>
      /\ xsum_add_large_vec(lacc[1], p).chunk = xsum_add_large_vec(lacc[1], q).chunk
      /\ xsum_add_large_vec(lacc[1], p).count = xsum_add_large_vec(lacc[1], q).count

\* the permutation of p that has 1.0 first and the negative value last; two
\* vectors are permutations of each other exactly when they have the same one
Sorted(p) ==
  LET rank(v) == IF v = One THEN 1 ELSE IF v = OnePlus THEN 2 ELSE 3
  IN  CHOOSE q \in PermVecs :
        SameValues(p, q) /\ \A i \in 1..(Len(q) - 1) : rank(q[i]) <= rank(q[i + 1])

\* C16 as the code has it: the large vector add leaves the accumulator exactly
\* as adding the values one at a time in the order of the vector does, so the
\* speculative update and its rollback leave no trace; two vectors that are
\* permutations of each other give identical count arrays and the same
\* rounded result, while the chunk array depends on the order when a chunk is
\* transferred part-way through the vector.
C16_CountAndResultByMultiset ==
  steps < MaxVecSteps => \A p \in PermVecs :
    LET lp == xsum_add_large_vec(lacc[1], p)
        lq == xsum_add_large_vec(lacc[1], Sorted(p))
    IN  /\ lp = xsum_add_large_each(lacc[1], p)
        /\ lp.count = lq.count
        /\ xsum_round_large(lp).ret = xsum_round_large(lq).ret

\* a vector with 1.0 before the next value above it has been added to a large
\* accumulator whose chunk for that exponent had room for one more value: the
\* second value made the chunk be transferred, and is alone in it now
C16_Witness ==
  /\ op.name = "add_values" /\ op.kind = "large" /\ op.n = 3
  /\ lterm[1][One] = 2^XSUM_LCOUNT_BITS /\ lterm[1][OnePlus] = 1
  /\ lacc[1].chunk[ChunkIndex(One)] = OnePlus
  /\ lacc[1].count[ChunkIndex(One)] = 2^XSUM_LCOUNT_BITS - 1

\* the signed 64-bit addition a + b leaves the range of xsum_schunk
AddOverflows64(a, b) ==
  IsNeg64(a) = IsNeg64(b) /\ IsNeg64(Add64(a, b)) # IsNeg64(a)

\* C15: merging a small accumulator into another with a single decrement of
\* adds_until_propagate is sound: with the recipient propagated first when its
\* counter is zero, every chunk of the recipient after the merge is the exact
\* integer sum of the two operands' chunks, no signed 64-bit addition of the
\* merge overflowing.
C15_MergeDoesNotOverflow ==
  [][\A a, b \in Acc :
       (a # b /\ MergeSmall(a, b))
          => \A i \in 0..(XSUM_SCHUNKS - 1) :
               ~AddOverflows64(propagate_if_needed(sacc[a]).chunk[i], sacc[b].chunk[i])]_vars

\* min(n - 1, sacc->adds_until_propagate): the length of the run that the
\* contract of the vector addition gives for n values remaining
RunLength(s, n) ==
  IF n - 1 <= s.adds_until_propagate THEN n - 1 ELSE s.adds_until_propagate

\* C29: the vector addition to a small accumulator takes the first n - 1
\* values in runs of m = min(values remaining - 1, adds_until_propagate)
\* values: it propagates before a run only if the counter is 0, adds the m
\* values without propagating, takes m from the counter, and adds the last
\* value by the addition of one value. Stated for the run that starts in the
\* present state with n values remaining, for the function and for the method
\* of xsum_small.
C29_RunsOfMinLength ==
  \A n \in 2..MaxVecLen :
    LET s1 == propagate_if_needed(sacc[1])
        m == RunLength(s1, n)
    IN  /\ (sacc[1].adds_until_propagate # 0 => s1 = sacc[1])
        /\ small_vec_m(s1, n) = m
        /\ class_small_vec_m(s1, n) = m
        /\ \A vec \in Vecs :
             Len(vec) = n =>
               /\ xsum_add_small_vec_loop(sacc[1], vec, 1, n)
                    = xsum_add_small_vec_loop(
                        less_until_propagate(xsum_add_no_carry_vec(s1, vec, 1, m + 1), m),
                        vec, 1 + m, n - m)
               /\ xsum_small_add_vec_loop(sacc[1], vec, 1, n)
                    = xsum_small_add_vec_loop(
                        less_until_propagate(xsum_add_no_carry_vec(s1, vec, 1, m + 1), m),
                        vec, 1 + m, n - m)

\* the longest vector whose reads are followed
MaxReadLen == 7

\* vectors of 1 to MaxReadLen values in which every p-th value is a and the
\* others are b
ReadVecs ==
  { [i \in 1..n |-> IF i % p = 0 THEN a ELSE b] :
      n \in 1..MaxReadLen, p \in 2..3, a \in {One, PosInf}, b \in {One, NegAllOnes} }

\* the array vec followed in memory by two values that are not part of it
PastTheEnd(vec) == vec \o <<NaNHigh, NaNHigh>>

\* the state of xsum_add(lacc, vec, n) of n values when its while (m >= 0)
\* loop is left: st.j - 1 values have been read, two at a time
AfterPairs(l, vec) ==
  xsum_add_large_pairs(PastTheEnd(vec), [lacc |-> l, j |-> 1, m |-> Len(vec) - 3])

\* the number of times the for (;;) loop over the last values reads *v++: it
\* is left when --m gives 0
RECURSIVE LastReads(_)
LastReads(m) == IF m = 1 THEN 1 ELSE 1 + LastReads(m - 1)

\* C27: for every n >= 1 the vector addition to a large accumulator ends and
\* reads v[0] .. v[n-1], each once, and nothing at or after v[n]: the paired
\* loop reads an even number of values and leaves one or two, the last loop
\* reads those, the reads advance one pointer from v[0] to v[n], and the
\* NaN that follow the array in memory do not reach the accumulator.
C27_ReadsExactlyN ==
  \A vec \in ReadVecs :
    LET st == AfterPairs(lacc[1], vec)
        l2 == xsum_add_large_tail(PastTheEnd(vec), st)
    IN  /\ (st.j - 1) % 2 = 0
        /\ st.m + 3 \in {1, 2}
        /\ (st.j - 1) + LastReads(st.m + 3) = Len(vec)
        /\ l2.sacc.NaN = lacc[1].sacc.NaN
        /\ l2.count[2^XSUM_EXP_BITS + XSUM_EXP_MASK] = -1

\* the vector addition of 3 values has run on the accumulator with room for
\* one value in the chunk of 1.0: its paired loop was left for the count
C27_Witness ==
  /\ op.name = "add_values" /\ op.kind = "large" /\ op.n = 3
  /\ lterm[1][One] >= 2^XSUM_LCOUNT_BITS
  /\ lacc[1].count[ChunkIndex(One)] < 2^XSUM_LCOUNT_BITS - 1

\* the large accumulator l with other bits in the chunks that were not used
\* yet, different from chunk to chunk
Refilled(l) ==
  [l EXCEPT !.chunk = [ix \in 0..(XSUM_LCHUNKS - 1) |->
                         IF l.count[ix] = -1 THEN <<ix, LimbMax, 1, ix>> ELSE @[ix]]]

\* the chunks that the finite values of the model are added to: the others
\* keep the count -1
ValueChunks == {ChunkIndex(v) : v \in FiniteValues}

\* l1 and l2 are equal but for the chunks with count -1
SameButUnused(l1, l2) ==
  /\ l1.count = l2.count
  /\ l1.chunks_used = l2.chunks_used
  /\ l1.used_used = l2.used_used
  /\ l1.sacc = l2.sacc
  /\ \A ix \in ValueChunks : l1.count[ix] # -1 => l1.chunk[ix] = l2.chunk[ix]

\* vectors whose first pair meets chunks of one and of two exponents
UnusedVecs ==
  { <<One, NegAllOnes, One>>, <<One, One, NegAllOnes>>, <<OnePlus, One, One>>,
    <<PosInf, Lnormal, One>>, <<Sdenorm, Sdenorm, One, One, Lnormal>> }

\* C28: what a large accumulator gives does not depend on what chunk[ix]
\* holds while count[ix] is -1: with other bits in those chunks every addition
\* of a value or of a vector and every rounding leaves the same counts, flags,
\* small accumulator, used chunks and result; the first value added to such a
\* chunk, by itself or in the paired loop of a vector, is alone in it.
C28_UnusedChunksDoNotMatter ==
  LET l2 == Refilled(lacc[1])
      r1 == xsum_round_large(lacc[1])
      r2 == xsum_round_large(l2)
  IN  /\ r1.ret = r2.ret
      /\ SameButUnused(r1.lacc, r2.lacc)
      /\ SameButUnused(xsum_round_to_small(lacc[1]), xsum_round_to_small(l2))
      /\ \A v \in {One, NegAllOnes, Sdenorm, NegLnormal} :
           /\ SameButUnused(xsum_add_large(lacc[1], v), xsum_add_large(l2, v))
           /\ lacc[1].count[ChunkIndex(v)] = -1 =>
                /\ xsum_add_large(lacc[1], v).chunk[ChunkIndex(v)] = v
                /\ xsum_add_large_vec(lacc[1], <<v, One, One>>).chunk[ChunkIndex(v)]
                     = IF ChunkIndex(v) = ChunkIndex(One) THEN Add64(v, Add64(One, One))
                       ELSE v
      /\ \A vec \in UnusedVecs :
           SameButUnused(xsum_add_large_vec(lacc[1], vec), xsum_add_large_vec(l2, vec))

\* a vector of three values has been added to an accumulator whose chunks
\* were not zero at construction: the chunk of 1.0 holds the values, the
\* unused chunk 0 what it held
C28_Witness ==
  /\ op.name = "add_values" /\ op.kind = "large" /\ op.n = 3
  /\ lterm[1][One] = 3
  /\ lacc[1].chunk[ChunkIndex(One)] = Add64(One, Add64(One, One))
  /\ lacc[1].count[0] = -1
  /\ lacc[1].chunk[0] = W64(\hDEAD, \hBEEF, \h0BAD, \hF00D)

\* the last operation was xsum_round or xsum_round_to_small on large
\* accumulator 1
RoundedLarge ==
  op.kind = "large" /\ op.k = 1 /\ op.name \in {"round", "round_to_small"}

\* C24: every chunk of the large accumulator with count[ix] >= 0 has its bit
\* in chunks_used set, and so xsum_round and xsum_round_to_small transfer
\* every chunk that holds values: after them every chunk that was used is
\* empty, with a full count and a chunk of zero.
C24_UsedBitsCoverCounts ==
  \A ix \in 0..(XSUM_LCHUNKS - 1) :
    lacc[1].count[ix] >= 0 =>
      /\ Bit64(lacc[1].chunks_used[ix \div 64], ix % 64) = 1
      /\ RoundedLarge => /\ lacc[1].count[ix] = 2^XSUM_LCOUNT_BITS
                         /\ lacc[1].chunk[ix] = Zero64

\* xsum_round has transferred the chunks of 1.0 and of -(2 - 2^-52)
C24_Witness ==
  /\ RoundedLarge
  /\ lterm[1][One] > 0 /\ lterm[1][NegAllOnes] > 0
  /\ lacc[1].count[ChunkIndex(One)] = 2^XSUM_LCOUNT_BITS
  /\ lacc[1].count[ChunkIndex(NegAllOnes)] = 2^XSUM_LCOUNT_BITS
  /\ Bit64(lacc[1].chunks_used[ChunkIndex(NegAllOnes) \div 64],
           ChunkIndex(NegAllOnes) % 64) = 1

\* C25: bit k of used_used is set exactly when chunks_used[k] is not zero,
\* for every k in 0..63.
C25_UsedUsedSummarises ==
  \A k \in 0..((XSUM_LCHUNKS \div 64) - 1) :
    Bit64(lacc[1].used_used, k) = 1 <=> lacc[1].chunks_used[k] # Zero64

\* values of two blocks of chunks have been added: two bits of used_used are
\* set, those of the blocks of 1.0 and of -(2 - 2^-52)
C25_Witness ==
  /\ lterm[1][One] > 0 /\ lterm[1][NegAllOnes] > 0
  /\ Bit64(lacc[1].used_used, ChunkIndex(One) \div 64) = 1
  /\ Bit64(lacc[1].used_used, ChunkIndex(NegAllOnes) \div 64) = 1
  /\ lacc[1].chunks_used[0] = Zero64
  /\ Bit64(lacc[1].used_used, 0) = 0

\* C23: xsum_round does not change the value an accumulator stands for: a
\* call of xsum_round put in before the next addition or merge, on the
\* accumulator that receives it, leaves the result of the xsum_round that
\* follows the operation as it is without the call.
C23_RoundInsertedKeepsResult ==
  \A a \in Acc :
    /\ \A v \in MergeValues :
         /\ xsum_round_small(xsum_add_small(xsum_round_small(sacc[a]).sacc, v)).ret
              = xsum_round_small(xsum_add_small(sacc[a], v)).ret
         /\ xsum_round_large(xsum_add_large(xsum_round_large(lacc[a]).lacc, v)).ret
              = xsum_round_large(xsum_add_large(lacc[a], v)).ret
    /\ \A b \in Acc \ {a} :
         /\ xsum_round_small(
              xsum_add_small_sacc(xsum_round_small(sacc[a]).sacc, sacc[b])).ret
              = xsum_round_small(xsum_add_small_sacc(sacc[a], sacc[b])).ret
         /\ xsum_round_large(
              xsum_add_large_sacc(xsum_round_large(lacc[a]).lacc, sacc[b])).ret
              = xsum_round_large(xsum_add_large_sacc(lacc[a], sacc[b])).ret

\* the signed 64-bit chunk c divided by 2^52, rounded down: the bits above
\* the width of a mantissa
SignedTop(c) ==
  LET w == ShrS64(c, XSUM_MANTISSA_BITS)
  IN  IF IsNeg64(c) THEN w[1] - LimbBase ELSE w[1]

\* every chunk of s is within what the additions counted since the last
\* propagation can have made of a propagated chunk, each adding less than 2^52
\* in magnitude: well inside the signed 64-bit range
ChunksWithinSlack(s) ==
  LET used == XSUM_SMALL_CARRY_TERMS - s.adds_until_propagate
  IN  \A i \in 0..(XSUM_SCHUNKS - 1) :
        -(used + 1) <= SignedTop(s.chunk[i]) /\ SignedTop(s.chunk[i]) <= used

\* C21: between two carry propagations no chunk of a small accumulator leaves
\* the signed 64-bit range: after at most T = 2047 additions of a value or
\* transfers of a large chunk since construction or the last propagation,
\* every chunk is within the slack of the additions made, and the chunks, as
\* they are, stand for the exact sum of the values added.
C21_NoChunkOverflow ==
  /\ ChunksWithinSlack(sacc[1])
  /\ ChunksWithinSlack(lacc[1].sacc)
  /\ SaccIsSaccPlus(sacc[1], xsum_small_accumulator, sterm[1],
                    {v \in FiniteValues : sterm[1][v] > 0})

\* 2047 additions of 2 - 2^-52 have been made without a propagation: the chunk
\* that takes the upper bits of the mantissa holds nearly 2047 * 2^52
C21_Witness ==
  /\ op.name = "add" /\ op.kind = "small" /\ op.n = XSUM_SMALL_CARRY_TERMS
  /\ sterm[1][AllOnes] = XSUM_SMALL_CARRY_TERMS
  /\ sacc[1].adds_until_propagate = 0
  /\ SignedTop(sacc[1].chunk[32]) >= XSUM_SMALL_CARRY_TERMS - 1

(***************************************************************************)
(* NaN and Inf values among the terms: values added one at a time or as a  *)
(* vector to one small and one large accumulator, and the results rounded. *)
(***************************************************************************)
MaxNaNSteps == 4

NaNValues == {One, PosInf, NaNLow, NaNHigh}
NaNVecs == SeqsOf(NaNValues, 2) \cup SeqsOf({NaNLow, NaNHigh}, 3)

NaNNext ==
  \/ \E v \in NaNValues : steps < MaxNaNSteps /\ AddSmall(1, v, 1)
  \/ \E v \in NaNValues : steps < MaxNaNSteps /\ AddLarge(1, v, 1)
  \/ \E vec \in NaNVecs : steps + Len(vec) <= MaxNaNSteps /\ AddValuesSmall(1, vec)
  \/ \E vec \in NaNVecs : steps + Len(vec) <= MaxNaNSteps /\ AddValuesLarge(1, vec)
  \/ steps < MaxNaNSteps /\ RoundSmall(1)
  \/ steps < MaxNaNSteps /\ RoundLarge(1)

SpecNaN == Init /\ [][NaNNext]_vars

\* the chunks of the large accumulator that the exponent field of an Inf or
\* NaN indexes, for the two signs
InfNaNChunks == {XSUM_EXP_MASK, 2^XSUM_EXP_BITS + XSUM_EXP_MASK}

\* the chunk ix of l has never been used: its count is -1, its bit in
\* chunks_used is clear and its chunk holds what it held at construction
NeverUsed(l, ix) ==
  /\ l.count[ix] = -1
  /\ Bit64(l.chunks_used[ix \div 64], ix % 64) = 0
  /\ l.chunk[ix] \in Garbage

\* vectors that put an Inf or NaN in either lane of the paired loop, next to
\* a finite value, to one of its own chunk and to one of the other sign
InfNaNVecs ==
  { <<One, PosInf, One>>, <<PosInf, One, One>>, <<PosInf, PosInf, NaNLow>>,
    <<NegInf, NaNLow, One>>, <<NaNHigh, NegInf, One, PosInf, One>> }

\* C26: the two chunks of the large accumulator reserved for Inf and NaN (of
\* index 0x7FF and 0xFFF) have count -1 after every operation, the vector
\* additions whose paired loop decrements the count ahead of the test
\* included, and are never transferred to the small accumulator.
C26_InfNaNBinsUnused ==
  \A ix \in InfNaNChunks :
    /\ NeverUsed(lacc[1], ix)
    /\ \A vec \in InfNaNVecs : NeverUsed(xsum_add_large_vec(lacc[1], vec), ix)

\* a vector of three NaN of both signs has gone through the paired loop and
\* reached the small accumulator
C26_Witness ==
  /\ op.name = "add_values" /\ op.kind = "large" /\ op.n = 3
  /\ HasTerm(lterm[1], NaNLow) /\ HasTerm(lterm[1], NaNHigh)
  /\ lacc[1].sacc.NaN # Zero64
  /\ \A ix \in InfNaNChunks : lacc[1].count[ix] = -1

\* the NaN among the terms of t whose mantissa, read as an unsigned integer,
\* is the largest, with its sign bit cleared
LargestNaN(t) ==
  LET S == {v \in AllValues : HasTerm(t, v) /\ IsNaN(v)}
      m == CHOOSE v \in S : \A w \in S :
             ~LtU64(LowBits64(v, XSUM_MANTISSA_BITS), LowBits64(w, XSUM_MANTISSA_BITS))
  IN  ClearBit64(m, XSUM_SIGN_BIT)

\* C11: when NaN values are among the values added, in whatever order and
\* among whatever other values, round returns the NaN with the sign bit clear
\* whose mantissa payload is the largest among the NaNs added.
C11_NaNPayloadRule ==
  (op.name = "round" /\ HasNaN(TermsOf(op))) => op.ret = LargestNaN(TermsOf(op))

\* a large accumulator to which both NaNs and an infinity were added has been
\* rounded, and the NaN with the larger payload came back with its sign cleared
C11_Witness ==
  /\ op.name = "round" /\ op.kind = "large"
  /\ HasTerm(lterm[1], NaNLow) /\ HasTerm(lterm[1], NaNHigh) /\ HasTerm(lterm[1], PosInf)
  /\ op.ret = W64(\h7FF8, 0, 0, 7)

(***************************************************************************)
(* Initialisation of an accumulator that has been used: xsum_init and the  *)
(* init and reset methods of the classes.                                  *)
(***************************************************************************)
MaxInitSteps == 3

\* xsum_init<xsum_small_accumulator>, xsum_small::init
xsum_init_small(s) ==
  [s EXCEPT !.chunk = [i \in 0..(XSUM_SCHUNKS - 1) |-> Zero64],
            !.Inf = Zero64,
            !.NaN = Zero64,
            !.adds_until_propagate = XSUM_SMALL_CARRY_TERMS]

\* an initialisation of the large accumulator that leaves the counts
xsum_init_large_counts_kept(l) ==
  [l EXCEPT !.chunks_used = [i \in 0..((XSUM_LCHUNKS \div 64) - 1) |-> Zero64],
            !.used_used = Zero64,
            !.sacc = xsum_init_small(@)]

\* xsum_init<xsum_large_accumulator>, xsum_large::init: count, chunks_used,
\* used_used and the small accumulator are filled; chunk is not touched
xsum_init_large(l) ==
  [l EXCEPT !.count = [i \in 0..(XSUM_LCHUNKS - 1) |-> -1],
            !.chunks_used = [i \in 0..((XSUM_LCHUNKS \div 64) - 1) |-> Zero64],
            !.used_used = Zero64,
            !.sacc = xsum_init_small(@)]

InitSmall(k) ==
  /\ sacc' = [sacc EXCEPT ![k] = xsum_init_small(@)]
  /\ sterm' = [sterm EXCEPT ![k] = NoTerms]
  /\ steps' = steps + 1
  /\ op' = Did("xsum_init", "small", k, 0, Zero64, FALSE)
  /\ UNCHANGED <<lacc, lterm, rounds, merges>>

InitLarge(k) ==
  /\ lacc' = [lacc EXCEPT ![k] = xsum_init_large(@)]
  /\ lterm' = [lterm EXCEPT ![k] = NoTerms]
  /\ steps' = steps + 1
  /\ op' = Did("xsum_init", "large", k, 0, Zero64, FALSE)
  /\ UNCHANGED <<sacc, sterm, rounds, merges>>

\* xsum_small::reset: a new xsum_small_accumulator
ResetSmall(k) ==
  /\ sacc' = [sacc EXCEPT ![k] = xsum_small_accumulator]
  /\ sterm' = [sterm EXCEPT ![k] = NoTerms]
  /\ steps' = steps + 1
  /\ op' = Did("reset", "small", k, 0, Zero64, FALSE)
  /\ UNCHANGED <<lacc, lterm, rounds, merges>>

\* xsum_large::reset: a new xsum_large_accumulator, whose chunk array holds
\* whatever the allocation holds
ResetLarge(k) ==
  /\ \E g \in Garbage : lacc' = [lacc EXCEPT ![k] = xsum_large_accumulator(g)]
  /\ lterm' = [lterm EXCEPT ![k] = NoTerms]
  /\ steps' = steps + 1
  /\ op' = Did("reset", "large", k, 0, Zero64, FALSE)
  /\ UNCHANGED <<sacc, sterm, rounds, merges>>

InitValues == {One, NegAllOnes, PosInf, NaNLow}
InitVecs == SeqsOf({One, NegAllOnes}, 1) \cup SeqsOf({One, NegAllOnes}, 3)

InitNext ==
  \/ \E v \in InitValues : steps < MaxInitSteps /\ AddSmall(1, v, 1)
  \/ \E v \in InitValues : steps < MaxInitSteps /\ AddLarge(1, v, 1)
  \/ steps = 0 /\ AddLarge(1, One, 2^XSUM_LCOUNT_BITS)
  \/ steps < MaxInitSteps /\ RoundSmall(1)
  \/ steps < MaxInitSteps /\ RoundLarge(1)
  \/ steps < MaxInitSteps /\ InitSmall(1)
  \/ steps < MaxInitSteps /\ InitLarge(1)
  \/ steps < MaxInitSteps /\ ResetSmall(1)
  \/ steps < MaxInitSteps /\ ResetLarge(1)

SpecInit == Init /\ [][InitNext]_vars

MaxDotSteps == 2
MaxDotLen == 2

\* -x of a binary64 value
FltNeg(v) ==
  IF Bit64(v, XSUM_SIGN_BIT) = 1 THEN ClearBit64(v, XSUM_SIGN_BIT) ELSE SetBit64(v, XSUM_SIGN_BIT)

\* f1 * f2 in binary64, for the products the vectors below give: one factor
\* is 1.0 or -1.0 and the other is not a NaN, so the product is exact
FltMul(f1, f2) ==
  CASE f1 = One -> f2
    [] f1 = NegOne -> FltNeg(f2)
    [] f2 = One -> f1
    [] f2 = NegOne -> FltNeg(f1)

\* the values g = *v1 * *v2 the loops compute for the first n elements
DotProducts(vec1, vec2, n) == [i \in 1..n |-> FltMul(vec1[i], vec2[i])]

\* xsum_add_dot<xsum_small_accumulator>(sacc, vec1, vec2) for two vectors:
\* the loop of xsum_add<xsum_small_accumulator>(sacc, vec, n) over the products
xsum_add_dot_small(s, vec1, vec2) ==
  IF Len(vec1) = 0 \/ Len(vec1) > Len(vec2) THEN s
  ELSE xsum_add_small_vec_loop(s, DotProducts(vec1, vec2, Len(vec1)), 1, Len(vec1))

\* xsum_small::add_dot(v1, v2) for two vectors
xsum_small_add_dot(s, v1, v2) ==
  IF Len(v1) = 0 \/ Len(v1) > Len(v2) THEN s
  ELSE xsum_small_add_vec_loop(s, DotProducts(v1, v2, Len(v1)), 1, Len(v1))

\* the products the call has added, as terms
DotTerms(t, vec1, vec2) ==
  IF Len(vec1) = 0 \/ Len(vec1) > Len(vec2) THEN t
  ELSE TermsOfVec(t, DotProducts(vec1, vec2, Len(vec1)))

AddDotSmall(k, vec1, vec2) ==
  /\ sacc' = [sacc EXCEPT ![k] = xsum_add_dot_small(@, vec1, vec2)]
  /\ sterm' = [sterm EXCEPT ![k] = DotTerms(@, vec1, vec2)]
  /\ steps' = steps + 1
  /\ op' = Did("add_dot", "small", k, Len(vec1), Zero64, FALSE)
  /\ UNCHANGED <<lacc, lterm, rounds, merges>>

ClassAddDotSmall(k, v1, v2) ==
  /\ sacc' = [sacc EXCEPT ![k] = xsum_small_add_dot(@, v1, v2)]
  /\ sterm' = [sterm EXCEPT ![k] = DotTerms(@, v1, v2)]
  /\ steps' = steps + 1
  /\ op' = Did("class_add_dot", "small", k, Len(v1), Zero64, FALSE)
  /\ UNCHANGED <<lacc, lterm, rounds, merges>>

DotVecs1 == UNION {SeqsOf({One, NegOne}, n) : n \in 0..MaxDotLen}
DotVecs2 == UNION {SeqsOf({One, AllOnes}, n) : n \in 0..MaxDotLen}

DotNext ==
  \/ \E vec1 \in DotVecs1, vec2 \in DotVecs2 :
       steps < MaxDotSteps /\ AddDotSmall(1, vec1, vec2)
  \/ \E v1 \in DotVecs1, v2 \in DotVecs2 :
       steps < MaxDotSteps /\ ClassAddDotSmall(1, v1, v2)
  \/ steps = 0 /\ AddSmall(1, AllOnes, XSUM_SMALL_CARRY_TERMS - 1)
  \/ steps < MaxDotSteps /\ RoundSmall(1)

SpecDot == Init /\ [][DotNext]_vars

\* the products of the first min(len(a), len(b)) elements
MinProducts(a, b) ==
  DotProducts(a, b, IF Len(a) <= Len(b) THEN Len(a) ELSE Len(b))

\* C14: given two vectors of different lengths, the dot product adds exactly
\* the min(len(a), len(b)) products a[i]*b[i], whichever argument is the
\* shorter: the accumulator is left as adding these products one at a time
\* leaves it (and for equal lengths likewise).
C14_ShorterVectorGoverns ==
  \A a \in DotVecs1, b \in DotVecs2 :
    /\ xsum_add_dot_small(sacc[1], a, b) = xsum_add_small_each(sacc[1], MinProducts(a, b))
    /\ xsum_small_add_dot(sacc[1], a, b) = xsum_add_small_each(sacc[1], MinProducts(a, b))

(***************************************************************************)
(* Carry propagation in a small accumulator that values of both signs,     *)
(* cancelling or not, have been added to.                                  *)
(***************************************************************************)
MaxCarrySteps == 4

CarryPropagate(k) ==
  LET r == xsum_carry_propagate(sacc[k])
  IN  /\ sacc' = [sacc EXCEPT ![k] = r.sacc]
      /\ op' = Did("carry_propagate", "small", k, 0, FromNat(r.ret), FALSE)
      /\ steps' = steps + 1
      /\ UNCHANGED <<lacc, sterm, lterm, rounds, merges>>

CarryValues ==
  {One, NegOne, AllOnes, NegAllOnes, Sdenorm, NegSdenorm, Lnormal, NegLnormal}

CarryNext ==
  \/ \E v \in CarryValues : steps < MaxCarrySteps /\ AddSmall(1, v, 1)
  \/ \E v \in {AllOnes, NegLnormal} : steps = 0 /\ AddSmall(1, v, XSUM_SMALL_CARRY_TERMS)
  \/ steps < MaxCarrySteps /\ CarryPropagate(1)

SpecCarry == Init /\ [][CarryNext]_vars

\* the index of the uppermost non-zero chunk, 0 when every chunk is zero
Uppermost(chunk) ==
  IF \A i \in 0..(XSUM_SCHUNKS - 1) : chunk[i] = Zero64 THEN 0
  ELSE CHOOSE u \in 0..(XSUM_SCHUNKS - 1) :
         chunk[u] # Zero64 /\ \A i \in (u + 1)..(XSUM_SCHUNKS - 1) : chunk[i] = Zero64

\* c is in 0 .. 2^32 - 1; c is in -2^32 .. -1
InLow32(c) == c[3] = 0 /\ c[4] = 0
InMinus32(c) == c[3] = LimbMax /\ c[4] = LimbMax

\* C19: after xsum_carry_propagate on a small accumulator reached by at most T
\* additions since the last propagation, with u the index of the uppermost
\* non-zero chunk, every chunk below u is in [0, 2^32), chunk[u] is in
\* [-2^32, 2^32 - 1] and is not -1, and every chunk above u is zero.
C19_RangesAfterPropagate ==
  LET chunk == xsum_carry_propagate(sacc[1]).sacc.chunk
      u == Uppermost(chunk)
  IN  /\ \A i \in 0..(u - 1) : InLow32(chunk[i])
      /\ InLow32(chunk[u]) \/ InMinus32(chunk[u])
      /\ chunk[u] # MinusOne64
      /\ \A i \in (u + 1)..(XSUM_SCHUNKS - 1) : chunk[i] = Zero64

\* carry propagation has run on an accumulator holding 2 - 2^-52, -1 and -1:
\* the chunk of -1 that the carries left uppermost has been folded into the
\* chunks below, and the uppermost chunk is now -2^31, two chunks further down
C19_Witness ==
  /\ op.name = "carry_propagate"
  /\ sterm[1][AllOnes] = 1 /\ sterm[1][NegOne] = 2
  /\ op.ret = FromNat(31)
  /\ sacc[1].chunk[31] = Neg64(Shl64(One64, 31))
  /\ sacc[1].chunk[33] = Zero64

\* C20: xsum_carry_propagate does not change the value the small accumulator
\* stands for, the sum of chunk[i] * 2^(32 i), and returns the index of the
\* uppermost non-zero chunk, or 0 when the value is zero.
C20_PropagateKeepsValue ==
  LET r == xsum_carry_propagate(sacc[1])
  IN  /\ SaccIsSaccPlus(r.sacc, sacc[1], NoTerms, {})
      /\ r.ret = Uppermost(r.sacc.chunk)
      /\ (\A i \in 0..(XSUM_SCHUNKS - 1) : r.sacc.chunk[i] = Zero64)
           <=> SaccIsSaccPlus(xsum_small_accumulator, sacc[1], NoTerms, {})

\* carry propagation has run on an accumulator holding 2047 times 2 - 2^-52
\* and the largest negative normal, and returned the index of the chunk that
\* holds the upper bits of the negative sum
C20_Witness ==
  /\ op.name = "carry_propagate"
  /\ sterm[1][AllOnes] = XSUM_SMALL_CARRY_TERMS /\ sterm[1][NegLnormal] = 1
  /\ op.ret = FromNat(XSUM_SCHUNKS - 2)
  /\ IsNeg64(sacc[1].chunk[XSUM_SCHUNKS - 2])
  /\ sacc[1].adds_until_propagate = XSUM_SMALL_CARRY_TERMS - 1

(***************************************************************************)
(* The counter adds_until_propagate under every operation: additions of a  *)
(* value, of a vector and of a dot product, merges, and rounding, on a     *)
(* small accumulator 2046 additions after its construction and on a large  *)
(* accumulator whose small accumulator has taken 2046 merges.              *)
(***************************************************************************)
MaxCountSteps == 3

CountValues == {One, NegAllOnes, PosZero}
CountVecs == UNION {SeqsOf({One, PosZero}, n) : n \in 0..3}

\* for (j = 0; j < n; ++j) xsum_add(&lacc, &value)
RECURSIVE xsum_add_large_sacc_rep(_, _, _)
xsum_add_large_sacc_rep(l, value, n) ==
  IF n <= 0 THEN l
  ELSE IF n = 1 THEN xsum_add_large_sacc(l, value)
  ELSE LET mid == xsum_add_large_sacc_rep(l, value, n \div 2)
       IN  IF Len(<<mid>>) = 1 THEN xsum_add_large_sacc_rep(mid, value, n - (n \div 2))
           ELSE mid

\* xsum_add(&lacc[a], &sacc[b]), n times over, sacc[b] as constructed
MergeLargeSmallMany(a, b, n) ==
  /\ sterm[b] = NoTerms
  /\ lacc' = [lacc EXCEPT ![a] = xsum_add_large_sacc_rep(@, sacc[b], n)]
  /\ steps' = steps + 1
  /\ merges' = merges + n
  /\ op' = Did("merge_small", "large", a, n, Zero64, FALSE)
  /\ UNCHANGED <<sacc, sterm, lterm, rounds>>

CountNext ==
  \/ \E v \in CountValues : steps < MaxCountSteps /\ AddSmall(1, v, 1)
  \/ \E v \in CountValues : steps < MaxCountSteps /\ AddLarge(1, v, 1)
  \/ steps = 0 /\ AddSmall(1, One, XSUM_SMALL_CARRY_TERMS - 1)
  \/ steps = 0 /\ MergeLargeSmallMany(1, 2, XSUM_SMALL_CARRY_TERMS - 1)
  \/ \E vec \in CountVecs : steps < MaxCountSteps /\ op.n > 1 /\ AddValuesSmall(1, vec)
  \/ \E vec \in CountVecs : steps < MaxCountSteps /\ op.n > 1 /\ ClassAddValuesSmall(1, vec)
  \/ \E vec \in CountVecs : steps < MaxCountSteps /\ op.n > 1 /\ AddValuesLarge(1, vec)
  \/ \E vec1 \in DotVecs1, vec2 \in DotVecs2 :
       steps < MaxCountSteps /\ op.n > 1 /\ AddDotSmall(1, vec1, vec2)
  \/ \E v1 \in DotVecs1, v2 \in DotVecs2 :
       steps < MaxCountSteps /\ op.n > 1 /\ ClassAddDotSmall(1, v1, v2)
  \/ \E b \in Acc : steps < MaxCountSteps /\ MergeSmall(1, b)
  \/ \E b \in Acc : steps < MaxCountSteps /\ ClassMergeSmall(1, b)
  \/ \E b \in Acc : steps < MaxCountSteps /\ MergeLargeSmall(1, b)
  \/ steps < MaxCountSteps /\ MergeLarge(1, 2)
  \/ steps < MaxCountSteps /\ RoundSmall(1)
  \/ steps < MaxCountSteps /\ RoundLarge(1)
  \/ steps < MaxCountSteps /\ RoundToSmall(1)

SpecCount == Init /\ [][CountNext]_vars

\* C22: after every operation the counter adds_until_propagate of every small
\* accumulator, the one embedded in a large accumulator included, is at least
\* 0 and at most T = 2047.
C22_CounterInRange ==
  \A k \in Acc :
    /\ 0 <= sacc[k].adds_until_propagate
    /\ sacc[k].adds_until_propagate <= XSUM_SMALL_CARRY_TERMS
    /\ 0 <= lacc[k].sacc.adds_until_propagate
    /\ lacc[k].sacc.adds_until_propagate <= XSUM_SMALL_CARRY_TERMS

\* the small accumulator of the large one has taken 2048 merges: the 2047th
\* brought its counter to zero and the 2048th propagated before it added
C22_Witness ==
  /\ op.name = "merge_small" /\ op.kind = "large" /\ op.n = 0
  /\ merges = XSUM_SMALL_CARRY_TERMS + 1
  /\ lacc[1].sacc.adds_until_propagate = XSUM_SMALL_CARRY_TERMS - 2

(***************************************************************************)
(* Sums that grow towards the uppermost chunk of the small accumulator:    *)
(* two accumulators that start with the largest finite value and are       *)
(* merged into each other by turns, each rounded after it has received, so *)
(* the sums grow as the Fibonacci numbers.                                 *)
(***************************************************************************)
MaxTopSteps == 140

\* xsum_add(&sacc[a], &sacc[b]); the terms merged are not recorded, their
\* number leaves the range of the integers
MergeSmallOnly(a, b) ==
  /\ sacc' = [sacc EXCEPT ![a] = xsum_add_small_sacc(@, sacc[b])]
  /\ steps' = steps + 1
  /\ merges' = merges + 1
  /\ op' = Did("merge", "small", a, 0, Zero64, FALSE)
  /\ UNCHANGED <<lacc, sterm, lterm, rounds>>

\* xsum_round is called as long as the uppermost chunk is within 32 bits
TopNext ==
  \/ \E k \in Acc : steps = k - 1 /\ AddSmall(k, Lnormal, 1)
  \/ \E a, b \in Acc :
       /\ 1 < steps /\ steps < MaxTopSteps
       /\ a # b /\ op.k = b /\ op.name \in {"add", "round"}
       /\ MergeSmallOnly(a, b)
  \/ \E k \in Acc :
       /\ steps < MaxTopSteps
       /\ op.name = "merge" /\ op.k = k
       /\ InLow32(sacc[k].chunk[XSUM_SCHUNKS - 1])
       /\ RoundSmall(k)

SpecTop == Init /\ [][TopNext]_vars

\* exp >> XSUM_LOW_EXP_BITS: the index of the lower of the chunks that a
\* value or a large chunk of exponent field exp is added to
HighExp(exp) == exp \div 2^XSUM_LOW_EXP_BITS

\* the main loop of xsum_carry_propagate as it starts on the accumulator s
CarryStart(s) ==
  LET top == cp_find_top(s.chunk)
      u == cp_skip_zero_down(s.chunk, top.u)
  IN  [chunk |-> s.chunk, i |-> cp_skip_low(s.chunk, u - 3, 0), u |-> u, uix |-> -1]

\* the indices i + 1 of the chunks that the passes of the main loop from st
\* on add a carry to, as far as the loop stays within the array
RECURSIVE CarryIndices(_)
CarryIndices(st) ==
  IF st.i > st.u \/ st.i > XSUM_SCHUNKS - 1 THEN {}
  ELSE LET st2 == cp_loop_step(st)
       IN  (IF st2.chunk # st.chunk THEN {st.i + 1} ELSE {}) \cup CarryIndices(st2)

\* C30: every index of a chunk of the small accumulator that is written lies
\* in 0..66: high_exp and high_exp + 1 in the addition of a value, high_exp to
\* high_exp + 2 in the transfer of a large chunk, and i + 1 in the carry
\* propagation, from every state that is reached.
C30_ChunkIndicesInRange ==
  /\ \A exp \in 1..(XSUM_EXP_MASK - 1) :
       0 <= HighExp(exp) /\ HighExp(exp) + 2 <= XSUM_SCHUNKS - 1
  /\ \A k \in Acc :
       cp_find_top(sacc[k].chunk).found =>
         CarryIndices(CarryStart(sacc[k])) \subseteq 0..(XSUM_SCHUNKS - 1)

=============================================================================
